---- MODULE Spec2Model ----
(***************************************************************************)
(* Model of the quota pipeline of load_quota_to_mysql.py:                  *)
(*   - the validity-interval calculator (calculate_obsolete_date,          *)
(*     get_quota_with_obsolete_date),                                      *)
(*   - the code resolution engine (get_*_dict, map_dataframe_to_quotas,    *)
(*     map_column_seq_to_mysql),                                           *)
(*   - the cross-tab report builder (export_quota_to_excel),               *)
(*   - main(), which chains them.                                          *)
(*                                                                         *)
(* Encoding.  A Python str is a sequence of Unicode code points            *)
(* (<<67,48,49>> is "C01"); str comparison is the lexicographic order of   *)
(* the code points.  A text date 'YYYYMMDD' is kept as the number          *)
(* YYYYMMDD, whose numeric order is the lexicographic order of the         *)
(* 8-character text.  None / NULL is NULL.  A DataFrame is the sequence    *)
(* of its rows, each row a record.                                         *)
(***************************************************************************)
EXTENDS Integers, Sequences, FiniteSets, TLC

VARIABLES
    quota,          \* rows of the SQLite quota table, in ORDER BY code
    df,             \* result of get_quota_with_obsolete_date() for quota
    quota2,         \* the same multiset of rows presented in another order
    df2,            \* result of the interval calculation for quota2
    pc,             \* where main() is
    process_cat1,   \* rows (name, code) of the MySQL dictionary tables, as read
    process_cat2,
    motor_models,
    processes,
    cat1_dict,      \* the dictionaries {name: code} built from them
    cat2_dict,
    model_dict,
    process_dict,
    clock,          \* what datetime.now() returns in map_dataframe_to_quotas
    quotas_df,      \* result of map_dataframe_to_quotas
    raised,         \* the exception main() ended with
    mysql_quotas,       \* rows of the MySQL quotas table
    sqlite_column_seq,  \* rows of the SQLite column_seq table
    mysql_column_seq,   \* the MySQL column_seq table: [exists, rows]
    xlsx,               \* the output file: [exists, sheets]
    mysql_insert,       \* how the bulk insert into quotas ends in this run
    column_seq_insert,  \* how the bulk insert into column_seq ends in this run
    to_excel_fails_at,  \* which to_excel call of the export raises (0: none)
    warning,            \* the error step 5 of main() reported as a warning
    counts,             \* loaded_count and column_seq_loaded_count
    column_seq_check,   \* step 5: what check_column_seq_table_exists() answered, and
                        \* whether create_column_seq_table() was called
    name_in,            \* the argument of a call of sanitize_sheet_name
    name_out,           \* what the call returned (NULL before it)
    max_retries,        \* retry(max_retries): the argument of the decorator
    outcomes,           \* what the wrapped function does at its 1st, 2nd, ... invocation
    wrapper_pc,         \* where a call of the wrapper is
    attempt,            \* the loop variable of the wrapper
    last_exception,     \* the wrapper's last_exception
    invocations,        \* how often the wrapped function has been invoked
    sleeps,             \* how often time.sleep(delay) has been called
    wrapper_out,        \* what the wrapper returned or raised
    batch_names,        \* load_cat2_code: the column 'name' of the sheet
    batch_codes,        \* load_cat2_code: the column 'cat2_code'
    batch_pc            \* where load_cat2_code.main() is

calcVars == <<quota, df, quota2, df2>>
tableVars == <<process_cat1, process_cat2, motor_models, processes>>
dictVars == <<cat1_dict, cat2_dict, model_dict, process_dict>>

storeVars == <<mysql_quotas, sqlite_column_seq, mysql_column_seq, xlsx>>
envVars == <<mysql_insert, column_seq_insert, to_excel_fails_at>>
lateVars == <<storeVars, envVars, warning, counts, column_seq_check>>
sheetVars == <<name_in, name_out>>
retryVars == <<max_retries, outcomes, wrapper_pc, attempt, last_exception, invocations, sleeps, wrapper_out>>
encodeVars == <<batch_names, batch_codes, batch_pc>>
utilVars == <<sheetVars, retryVars, encodeVars>>

vars == <<calcVars, pc, tableVars, dictVars, clock, quotas_df, raised, lateVars, utilVars>>

(***************************************************************************)
(* Bounds of the model                                                     *)
(***************************************************************************)
MaxRows == 3
MaxMainRows == 2
MaxDictRows == 2

(***************************************************************************)
(* Generic helpers                                                         *)
(***************************************************************************)
NULL == <<-1>>

Range(s) == {s[i] : i \in DOMAIN s}

\* the permutations of 1..n, tabulated once
PermTable ==
    [n \in 0..(MaxRows + 2) |->
        {p \in [1..n -> 1..n] : \A i, j \in 1..n : p[i] = p[j] => i = j}]

PermsOf(n) == PermTable[n]

SeqsUpTo(S, n) == UNION {[1..k -> S] : k \in 0..n}

\* number of positions of s that hold x
CountOf(s, x) == Cardinality({i \in DOMAIN s : s[i] = x})

\* two sequences hold the same multiset of elements
SameMultiset(s, t) ==
    /\ Len(s) = Len(t)
    /\ \A x \in Range(s) \cup Range(t) : CountOf(s, x) = CountOf(t, x)

\* lexicographic order of two sequences of integers (Python str / tuple order)
LexLess(a, b) ==
    \E i \in 1..(IF Len(a) < Len(b) THEN Len(a) ELSE Len(b)) + 1 :
        /\ \A j \in 1..(i - 1) : a[j] = b[j]
        /\ \/ (i > Len(a) /\ i <= Len(b))
           \/ (i <= Len(a) /\ i <= Len(b) /\ a[i] < b[i])

\* the order in which a stable ascending sort visits positions 1..Len(keys);
\* keys[i] is the (integer sequence) sort key of element i
StableOrder(keys) ==
    LET before(j, i) == LexLess(keys[j], keys[i]) \/ (keys[j] = keys[i] /\ j < i)
        rank(i) == Cardinality({j \in DOMAIN keys : before(j, i)}) + 1
    IN  [r \in 1..Len(keys) |-> CHOOSE i \in DOMAIN keys : rank(i) = r]

\* Python sorted(s, key=...) : stable
SortedBy(s, keys) == [i \in 1..Len(s) |-> s[StableOrder(keys)[i]]]

(***************************************************************************)
(* Calendar: datetime.strptime(s, '%Y%m%d'), date - timedelta(days=1),     *)
(* strftime('%Y%m%d'), as CPython computes them over proleptic Gregorian   *)
(* ordinals.                                                               *)
(***************************************************************************)
IsLeap(y) == (y % 4 = 0) /\ ((y % 100 # 0) \/ (y % 400 = 0))

DaysInMonth(y, m) ==
    IF m = 2 THEN (IF IsLeap(y) THEN 29 ELSE 28)
    ELSE IF m \in {4, 6, 9, 11} THEN 30 ELSE 31

DAYS_BEFORE_MONTH == <<0, 31, 59, 90, 120, 151, 181, 212, 243, 273, 304, 334>>

DaysBeforeYear(y) == (y - 1) * 365 + (y - 1) \div 4 - (y - 1) \div 100 + (y - 1) \div 400

DaysBeforeMonth(y, m) == DAYS_BEFORE_MONTH[m] + (IF m > 2 /\ IsLeap(y) THEN 1 ELSE 0)

YearOf(s) == s \div 10000
MonthOf(s) == (s \div 100) % 100
DayOf(s) == s % 100

\* strptime(s, '%Y%m%d') succeeds on the 8-digit text s
strptime_ok(s) ==
    /\ s >= 10000 /\ s <= 99991231
    /\ MonthOf(s) \in 1..12
    /\ DayOf(s) \in 1..DaysInMonth(YearOf(s), MonthOf(s))

\* ordinal of the date parsed from s
toordinal(s) == DaysBeforeYear(YearOf(s)) + DaysBeforeMonth(YearOf(s), MonthOf(s)) + DayOf(s)

\* date.fromordinal(n), rendered by strftime('%Y%m%d')
fromordinal(n) ==
    LET n0   == n - 1
        n400 == n0 \div 146097
        r400 == n0 % 146097
        n100 == r400 \div 36524
        r100 == r400 % 36524
        n4   == r100 \div 1461
        r4   == r100 % 1461
        n1   == r4 \div 365
        r1   == r4 % 365
        year == n400 * 400 + 1 + n100 * 100 + n4 * 4 + n1
        leap == n1 = 3 /\ (n4 # 24 \/ n100 = 3)
        m0   == (r1 + 50) \div 32
        p0   == DAYS_BEFORE_MONTH[m0] + (IF m0 > 2 /\ leap THEN 1 ELSE 0)
        month == IF p0 > r1 THEN m0 - 1 ELSE m0
        prec == IF p0 > r1
                THEN p0 - ((IF month = 2 THEN 28
                            ELSE IF month \in {4, 6, 9, 11} THEN 30 ELSE 31)
                           + (IF month = 2 /\ leap THEN 1 ELSE 0))
                ELSE p0
    IN  IF n1 = 4 \/ n100 = 4
        THEN (year - 1) * 10000 + 1231
        ELSE year * 10000 + month * 100 + (r1 - prec + 1)

SENTINEL == 99991231

NoError == [type |-> "none", msg |-> "none", detail |-> <<>>]

\* the ValueError of strptime(s, '%Y%m%d') on the 8-digit text s = YYYYabcd.
\* The format is matched as the regular expression
\*   (\d\d\d\d)(1[0-2]|0[1-9]|[1-9])(3[01]|[12]\d|0[1-9]|[1-9]| [1-9])
\* from the start of the text, alternatives tried in this order: no match
\* gives "time data 'YYYYabcd' does not match format", a match that leaves
\* characters over gives "unconverted data remains: <rest>", and a full match
\* with a day the month does not have gives "day is out of range for month"
strptime_error(s) ==
    LET a == (s \div 1000) % 10
        b == (s \div 100) % 10
        c == (s \div 10) % 10
        d == s % 10
        ab == 10 * a + b
        cd == 10 * c + d
        err(msg, values) ==
            [type |-> "ValueError", msg |-> msg,
             detail |-> <<[domain |-> "time data", values |-> values]>>]
        nomatch == err("does not match format", <<[i \in 1..8 |-> 48 + ((s \div (10 ^ (8 - i))) % 10)]>>)
        remains(rest) == err("unconverted data remains", <<rest>>)
    IN  IF ab \in 1..12
        THEN IF cd \in 1..31
             THEN IF s < 10000 THEN err("year 0 is out of range", <<>>)
                  ELSE err("day is out of range for month", <<>>)
             ELSE IF cd >= 32 THEN remains(<<48 + d>>)
             ELSE IF ab \in {11, 12} THEN remains(<<48>>)
             ELSE nomatch
        ELSE IF ab = 0 THEN nomatch
        ELSE IF (b = 3 /\ c <= 1) \/ b \in {1, 2} \/ (b = 0 /\ c >= 1) THEN remains(<<48 + d>>)
        ELSE IF b >= 1 THEN remains(<<48 + c, 48 + d>>)
        ELSE nomatch

\* slips of the date arithmetic: the text decremented as a number, and the
\* day not subtracted at all
ObsoleteBefore_text(next_effected_from) == next_effected_from - 1

ObsoleteBefore_same(next_effected_from) == fromordinal(toordinal(next_effected_from))

\* (strptime(next) - timedelta(days=1)).strftime('%Y%m%d')
ObsoleteBefore(next_effected_from) == fromordinal(toordinal(next_effected_from) - 1)

(***************************************************************************)
(* Strings used as labels and codes                                        *)
(***************************************************************************)
s_A  == <<65>>            \* "A"
s_X  == <<88>>            \* "X"
s_M1 == <<77, 49>>        \* "M1"
s_M2 == <<77, 50>>        \* "M2"
s_P1 == <<80, 49>>        \* "P1"
s_P2 == <<80, 50>>        \* "P2"
s_P3 == <<80, 51>>        \* "P3"
s_B  == <<66>>            \* "B"
s_D  == <<68>>            \* "D"
s_Y  == <<89>>            \* "Y"
s_M3 == <<77, 51>>        \* "M3"
s_C01 == <<67, 48, 49>>   \* "C01"
s_C02 == <<67, 48, 50>>   \* "C02"
s_X1 == <<88, 49>>        \* "X1"
s_K1 == <<75, 49>>        \* "K1"
s_K2 == <<75, 50>>        \* "K2"
s_K3 == <<75, 51>>        \* "K3"
s_100_2 == <<49, 48, 48, 45, 50>>   \* "100-2"
s_X2 == <<88, 50>>        \* "X2"
s_63_1 == <<54, 51, 45, 49>>   \* "63-1"
s_L24 == [i \in 1..24 |-> 76]   \* "L" 24 times
s_M4 == <<77, 52>>        \* "M4"
s_999 == <<57, 57, 57>>   \* "999"
s_abc == <<97, 98, 99>>   \* "abc"

(***************************************************************************)
(* Validity interval calculator                                            *)
(***************************************************************************)
\* group_columns of get_quota_with_obsolete_date
GroupKey(r) == <<r.cat1, r.cat2, r.model, r.process>>

\* the record without its row code and obsolete date
QuotaRecord(r) == <<r.cat1, r.cat2, r.model, r.process, r.price, r.effected_from>>

HasNullKey(r) == \E i \in 1..4 : GroupKey(r)[i] = NULL

WithObsolete(r, d) ==
    [code |-> r.code, cat1 |-> r.cat1, cat2 |-> r.cat2, model |-> r.model,
     process |-> r.process, price |-> r.price, effected_from |-> r.effected_from,
     obsolete_date |-> d]

\* slip: the group is left in input order
sort_values_unsorted(group, tie) == group

\* group.sort_values('effected_from'): the default sort kind is not a stable
\* one, so rows with equal effected_from may come out in any order; tie gives
\* the order this run produces among equal keys (tie[code] of each row)
sort_values(group, tie) ==
    SortedBy(group, [i \in 1..Len(group) |->
                        <<group[i].effected_from, tie[group[i].code]>>])

\* calculate_obsolete_date(group): [ok, rows, error]; ok = FALSE when
\* strptime raises, error is what it raises on the first text it rejects
calculate_obsolete_date(group, tie) ==
    LET g == sort_values(group, tie)
        n == Len(g)
        bad == {i \in 1..(n - 1) : ~strptime_ok(g[i + 1].effected_from)}
    IN  IF n = 1
        THEN [ok |-> TRUE, rows |-> <<WithObsolete(g[1], SENTINEL)>>, error |-> NoError]
        ELSE IF bad # {}
        THEN [ok |-> FALSE, rows |-> <<>>,
              error |-> strptime_error(
                  g[(CHOOSE i \in bad : \A j \in bad : i <= j) + 1].effected_from)]
        ELSE [ok |-> TRUE, error |-> NoError,
              rows |-> [i \in 1..n |->
                          IF i < n
                          THEN WithObsolete(g[i], ObsoleteBefore(g[i + 1].effected_from))
                          ELSE WithObsolete(g[i], SENTINEL)]]

\* the groups df.groupby(group_columns) forms: rows with a NULL key column
\* belong to no group
GroupKeys(q) == {GroupKey(q[i]) : i \in {j \in DOMAIN q : ~HasNullKey(q[j])}}

GroupRows(q, k) == SelectSeq(q, LAMBDA r : GroupKey(r) = k)

DfUnset == [st |-> "unset", rows |-> <<>>, error |-> NoError]
DfOk(rows) == [st |-> "ok", rows |-> rows, error |-> NoError]
DfRaised(e) == [st |-> "raised", rows |-> <<>>, error |-> e]

\* the order groupby goes through the group keys in: sorted, column by column
KeyLess(k1, k2) ==
    \E i \in 1..4 : LexLess(k1[i], k2[i]) /\ \A j \in 1..(i - 1) : k1[j] = k2[j]

\* get_quota_with_obsolete_date() on the table q: apply calculate_obsolete_date
\* to every group, concatenate, sort by code
get_quota_with_obsolete_date(q, tie) ==
    IF q = <<>> THEN DfOk(<<>>)
    ELSE
    LET res == [k \in GroupKeys(q) |-> calculate_obsolete_date(GroupRows(q, k), tie)]
        out == UNION {Range(res[k].rows) : k \in GroupKeys(q)}
        codes == {r.code : r \in out}
        row(c) == CHOOSE r \in out : r.code = c
        \* sort_values(by=code): codes are distinct
        rank(c) == Cardinality({d \in codes : d <= c})
        failed == {k \in GroupKeys(q) : ~res[k].ok}
    IN  IF failed # {}
        THEN DfRaised(res[CHOOSE k \in failed : \A l \in failed : l = k \/ KeyLess(k, l)].error)
        ELSE DfOk([i \in 1..Cardinality(codes) |->
                     row(CHOOSE c \in codes : rank(c) = i)])

(***************************************************************************)
(* Inputs of the interval calculator                                       *)
(***************************************************************************)
EffDates == {20230101, 20230601, 20240301}
Prices == {10, 12}
Models == {s_M1, s_M2}

\* a quota row before SELECT ... ORDER BY code numbers it
RowPool ==
    [cat1 : {s_A}, cat2 : {s_X}, model : Models, process : {s_P1},
     price : Prices, effected_from : EffDates]

\* the table as read: row i has code i
Numbered(rows) ==
    [i \in 1..Len(rows) |->
        [code |-> i, cat1 |-> rows[i].cat1, cat2 |-> rows[i].cat2,
         model |-> rows[i].model, process |-> rows[i].process,
         price |-> rows[i].price, effected_from |-> rows[i].effected_from]]

Reordered(q, p) == Numbered([i \in 1..Len(q) |-> q[p[i]]])

\* the orders an unstable sort can leave rows of equal sort key in: the
\* permutations of the row positions that move a row only among the rows of
\* its own group and effected_from
TieOrders(q) ==
    {p \in PermsOf(Len(q)) :
        \A i \in 1..Len(q) :
            /\ GroupKey(q[p[i]]) = GroupKey(q[i])
            /\ q[p[i]].effected_from = q[i].effected_from}

\* step 5 of main() has not been reached
Unasked == [asked |-> FALSE, exists |-> FALSE, create |-> FALSE]

\* load_cat2_code.main() is not running
NoBatch ==
    /\ batch_names = <<>>
    /\ batch_codes = <<>>
    /\ batch_pc = "idle"

\* no call of a retry wrapper is under way
NoWrapperCall ==
    /\ max_retries = 0
    /\ outcomes = <<>>
    /\ wrapper_pc = "idle"
    /\ attempt = 0
    /\ last_exception = NULL
    /\ invocations = 0
    /\ sleeps = 0
    /\ wrapper_out = NULL

\* main() has been entered and nothing has been read yet
MainEntered ==
    /\ pc = "get_quota"
    /\ cat1_dict = <<>> /\ cat2_dict = <<>> /\ model_dict = <<>> /\ process_dict = <<>>
    /\ clock = 0
    /\ quotas_df = DfUnset
    /\ raised = NoError
    /\ warning = NoError
    /\ counts = [quotas |-> 0, column_seq |-> 0]
    /\ column_seq_check = Unasked
    /\ name_out = NULL

NoFile == [exists |-> FALSE, sheets |-> <<>>]

\* stores and environment of a run in which nothing fails and there is no
\* column sequence
QuietLate ==
    /\ mysql_quotas = <<>>
    /\ sqlite_column_seq = <<>>
    /\ mysql_column_seq = [exists |-> FALSE, rows |-> <<>>]
    /\ xlsx = NoFile
    /\ mysql_insert = "ok"
    /\ column_seq_insert = "ok"
    /\ to_excel_fails_at = 0

\* the same, and the dictionary tables hold no row
QuietStores ==
    /\ process_cat1 = <<>> /\ process_cat2 = <<>> /\ motor_models = <<>> /\ processes = <<>>
    /\ QuietLate

InitCalc ==
    /\ \E rows \in SeqsUpTo(RowPool, MaxRows) : quota = Numbered(rows)
    /\ quota2 = <<>>
    /\ df = DfUnset
    /\ df2 = DfUnset
    /\ MainEntered
    /\ name_in = <<>>
    /\ NoWrapperCall
    /\ NoBatch
    /\ QuietStores

\* slip: main() goes on to step 2 with an empty frame
RunGetQuota_no_return ==
    /\ pc = "get_quota"
    /\ \E tie \in TieOrders(quota) : df' = get_quota_with_obsolete_date(quota, tie)
    /\ pc' = IF df'.st = "raised" THEN "raised" ELSE "get_cat1_dict"
    /\ raised' = IF df'.st = "raised" THEN df'.error ELSE raised
    /\ UNCHANGED <<quota, quota2, df2, tableVars, dictVars, clock, quotas_df, lateVars, utilVars>>

\* main() step 1 on the table as stored
RunGetQuota ==
    /\ pc = "get_quota"
    /\ \E tie \in TieOrders(quota) : df' = get_quota_with_obsolete_date(quota, tie)
    /\ pc' = IF df'.st = "raised" THEN "raised"
             ELSE IF df'.rows = <<>> THEN "returned"
             ELSE "get_cat1_dict"
    /\ raised' = IF df'.st = "raised" THEN df'.error ELSE raised
    /\ UNCHANGED <<quota, quota2, df2, tableVars, dictVars, clock, quotas_df, lateVars, utilVars>>

NextCalc == RunGetQuota

SpecCalc == InitCalc /\ [][NextCalc]_vars

(***************************************************************************)
(* Two presentations of one collection of records                          *)
(***************************************************************************)
PermDates == <<20230101, 20230601>>

\* the records a collection is drawn from, in a reference order
PermPool ==
    [i \in 1..8 |->
        [cat1 |-> s_A, cat2 |-> s_X,
         model |-> IF i > 4 THEN s_M2 ELSE s_M1,
         process |-> s_P1,
         price |-> IF i % 2 = 0 THEN 12 ELSE 10,
         effected_from |-> PermDates[(((i - 1) \div 2) % 2) + 1]]]

\* every collection of at most MaxRows records, listed in the reference order
\* (quota), together with every reordering of it (quota2)
InitPerm ==
    /\ \E k \in 0..MaxRows :
         \E f \in [1..k -> 1..8] :
            /\ \A i, j \in 1..k : i < j => f[i] <= f[j]
            /\ quota = Numbered([i \in 1..k |-> PermPool[f[i]]])
    /\ \E p \in PermsOf(Len(quota)) : quota2 = Reordered(quota, p)
    /\ df = DfUnset
    /\ df2 = DfUnset
    /\ MainEntered
    /\ name_in = <<>>
    /\ NoWrapperCall
    /\ NoBatch
    /\ QuietStores

\* the same call on the reordered collection
RunGetQuotaReordered ==
    /\ df2.st = "unset"
    /\ \E tie \in TieOrders(quota2) : df2' = get_quota_with_obsolete_date(quota2, tie)
    /\ UNCHANGED <<quota, quota2, df, pc, tableVars, dictVars, clock, quotas_df, raised, lateVars, utilVars>>

NextPerm == RunGetQuota \/ RunGetQuotaReordered

SpecPerm == InitPerm /\ [][NextPerm]_vars

(***************************************************************************)
(* Properties of the interval calculator                                   *)
(***************************************************************************)
\* the calendar day after the valid date d, by the calendar rules
NextDay(d) ==
    IF DayOf(d) < DaysInMonth(YearOf(d), MonthOf(d)) THEN d + 1
    ELSE IF MonthOf(d) < 12 THEN YearOf(d) * 10000 + (MonthOf(d) + 1) * 100 + 1
    ELSE (YearOf(d) + 1) * 10000 + 101

\* d is the date one calendar day before e
IsDayBefore(d, e) == strptime_ok(d) /\ NextDay(d) = e

OutGroup(rows, k) == {r \in Range(rows) : GroupKey(r) = k}

InRecord(r) ==
    [code |-> r.code, cat1 |-> r.cat1, cat2 |-> r.cat2, model |-> r.model,
     process |-> r.process, price |-> r.price, effected_from |-> r.effected_from]

\* the rows of G can be listed ascending by effected_from so that each row but
\* the last ends the day before the next one starts and the last never ends
ChainedIntervals(G) ==
    \E s \in [1..Cardinality(G) -> G] :
        /\ Range(s) = G
        /\ \A i \in 1..(Len(s) - 1) :
              /\ s[i].effected_from <= s[i + 1].effected_from
              /\ IsDayBefore(s[i].obsolete_date, s[i + 1].effected_from)
        /\ s[Len(s)].obsolete_date = SENTINEL

\* C1: in the result of the interval calculation every group holds exactly
\* its input records, and listed ascending by effective date each record but
\* the last has obsolete date = next effective date minus one calendar day,
\* the last (or only) record has obsolete date 99991231
C1_ObsoleteDates ==
    df.st = "ok" =>
        \A k \in GroupKeys(quota) :
            /\ {InRecord(r) : r \in OutGroup(df.rows, k)} = Range(GroupRows(quota, k))
            /\ ChainedIntervals(OutGroup(df.rows, k))

\* a group of at least two records with an interval that ends on the leap
\* day 2024-02-29, beside a group of one record with the sentinel
C1_Witness ==
    /\ df.st = "ok"
    /\ \E k \in GroupKeys(quota) :
          /\ Cardinality(OutGroup(df.rows, k)) >= 2
          /\ \E r \in OutGroup(df.rows, k) : r.obsolete_date = 20240229
    /\ \E k \in GroupKeys(quota) :
          /\ Cardinality(OutGroup(df.rows, k)) = 1
          /\ \A r \in OutGroup(df.rows, k) : r.obsolete_date = SENTINEL

\* the (key, price, effective date, obsolete date) records of a result
OutRecords(rows) ==
    [i \in 1..Len(rows) |->
        <<rows[i].cat1, rows[i].cat2, rows[i].model, rows[i].process,
          rows[i].price, rows[i].effected_from, rows[i].obsolete_date>>]

\* no two records of one group share an effective date and differ in price
NoPriceTie(q) ==
    \A i, j \in DOMAIN q :
        (GroupKey(q[i]) = GroupKey(q[j]) /\ q[i].effected_from = q[j].effected_from)
            => q[i].price = q[j].price

\* C2 as stated: any two orderings of one collection of records give the
\* same multiset of output records, ties on the effective date included
C2_PermutationInvariant ==
    (df.st = "ok" /\ df2.st = "ok") => SameMultiset(OutRecords(df.rows), OutRecords(df2.rows))

\* C2 amended: two orderings of one collection give the same multiset of
\* output records provided no two records of a group share an effective date
\* and differ in price
C2_PermutationInvariantNoTie ==
    (df.st = "ok" /\ df2.st = "ok" /\ NoPriceTie(quota))
        => SameMultiset(OutRecords(df.rows), OutRecords(df2.rows))

\* both orderings processed, the second one really different, a group of two
\* records with different effective dates
C2_Witness ==
    /\ df.st = "ok" /\ df2.st = "ok"
    /\ NoPriceTie(quota)
    /\ OutRecords(df.rows) # OutRecords(df2.rows)
    /\ \E i, j \in DOMAIN quota :
          /\ GroupKey(quota[i]) = GroupKey(quota[j])
          /\ quota[i].effected_from < quota[j].effected_from
          /\ quota[i].price # quota[j].price

\* the days [effected_from, obsolete_date] of two rows have a day in common
Overlap(r1, r2) ==
    LET lo == IF toordinal(r1.effected_from) > toordinal(r2.effected_from)
              THEN toordinal(r1.effected_from) ELSE toordinal(r2.effected_from)
        hi == IF toordinal(r1.obsolete_date) < toordinal(r2.obsolete_date)
              THEN toordinal(r1.obsolete_date) ELSE toordinal(r2.obsolete_date)
    IN  lo <= hi

Covered(G, day) ==
    \E r \in G : toordinal(r.effected_from) <= day /\ day <= toordinal(r.obsolete_date)

\* A first uncovered day on or after the earliest effective date is that
\* earliest date itself or the day after the end of some interval, so these
\* are the days to look at.
BoundaryDays(G) ==
    LET first == CHOOSE d \in {toordinal(r.effected_from) : r \in G} :
                    \A r \in G : d <= toordinal(r.effected_from)
    IN  {first} \cup {d \in {toordinal(r.obsolete_date) + 1 :
                                r \in {x \in G : x.obsolete_date # SENTINEL}} : d >= first}

\* C3: within a group no two emitted date ranges share a day, and every day
\* from the earliest effective date onward lies in one of them
C3_NoOverlapContiguous ==
    df.st = "ok" =>
        \A k \in GroupKeys(quota) :
            LET G == OutGroup(df.rows, k)
            IN  /\ \A r1, r2 \in G : r1 # r2 => ~Overlap(r1, r2)
                /\ \A day \in BoundaryDays(G) : Covered(G, day)

\* a group of three records with three different effective dates
C3_Witness ==
    /\ df.st = "ok"
    /\ \E k \in GroupKeys(quota) :
          /\ Cardinality(OutGroup(df.rows, k)) = 3
          /\ Cardinality({r.effected_from : r \in OutGroup(df.rows, k)}) = 3

(***************************************************************************)
(* Code resolution engine                                                  *)
(***************************************************************************)
\* the elements of a finite set of integers, ascending
AscSeq(I) == [r \in 1..Cardinality(I) |-> CHOOSE i \in I : Cardinality({j \in I : j <= i}) = r]

\* Python sorted() of a set of str
SortedStrs(S) ==
    [r \in 1..Cardinality(S) |->
        CHOOSE x \in S : Cardinality({y \in S : y = x \/ LexLess(y, x)}) = r]

\* A Python dict is the sequence of its (key, value) items in insertion
\* order.  dict(pairs): a key keeps the place of its first pair and the value
\* of its last pair.
DictFromPairs(pairs) ==
    LET first == {i \in DOMAIN pairs : \A j \in 1..(i - 1) : pairs[j][1] # pairs[i][1]}
        ord == AscSeq(first)
        last(k) == CHOOSE i \in DOMAIN pairs :
                      /\ pairs[i][1] = k
                      /\ \A j \in DOMAIN pairs : pairs[j][1] = k => j <= i
    IN  [r \in 1..Len(ord) |-> <<pairs[ord[r]][1], pairs[last(pairs[ord[r]][1])][2]>>]

DictKeys(d) == {d[i][1] : i \in DOMAIN d}

\* d.get(k): None when k is no key
DictGet(d, k) ==
    IF k \in DictKeys(d) THEN d[CHOOSE i \in DOMAIN d : d[i][1] = k][2] ELSE NULL

\* slip: no duplicate is ever reported
DuplicateNames_none(t) == <<>>

\* df[df.duplicated(subset=['name'], keep=False)]['name'].unique()
DuplicateNames(t) ==
    LET dup == {i \in DOMAIN t : \E j \in DOMAIN t : j # i /\ t[j].name = t[i].name}
        first == {i \in dup : \A j \in 1..(i - 1) : t[j].name # t[i].name}
        ord == AscSeq(first)
    IN  [r \in 1..Len(ord) |-> t[ord[r]].name]

\* dict(zip(df['name'], df[code column]))
dict_zip(t) == DictFromPairs([i \in DOMAIN t |-> <<t[i].name, t[i].code>>])

\* get_cat1_dict / get_cat2_dict / get_model_dict / get_process_dict on the
\* rows t read from table: the four functions differ in the table name only
get_dict(t, table) ==
    IF t = <<>>
    THEN [ok |-> FALSE, dict |-> <<>>,
          error |-> [type |-> "ValueError", msg |-> "No data found", detail |-> <<>>]]
    ELSE IF Len(DuplicateNames(t)) > 0
    THEN [ok |-> FALSE, dict |-> <<>>,
          error |-> [type |-> "ValueError", msg |-> "Duplicate names found",
                     detail |-> <<[domain |-> table, values |-> DuplicateNames(t)]>>]]
    ELSE [ok |-> TRUE, dict |-> dict_zip(t), error |-> NoError]

get_cat1_dict(t) == get_dict(t, "process_cat1")
get_cat2_dict(t) == get_dict(t, "process_cat2")
get_model_dict(t) == get_dict(t, "motor_models")
get_process_dict(t) == get_dict(t, "processes")

\* slip: every label counts as known
Missing_none(rows, col, d) == {}

\* the values of a label column that are no key of the dictionary
Missing(rows, col, d) == {rows[i][col] : i \in DOMAIN rows} \ DictKeys(d)

\* slip: fail-fast, only the first domain with a gap is reported
MappingErrors_first(rows, d1, d2, dm, dp) ==
    LET all == <<[domain |-> "cat1", values |-> SortedStrs(Missing(rows, "cat1", d1))],
                 [domain |-> "cat2", values |-> SortedStrs(Missing(rows, "cat2", d2))],
                 [domain |-> "model", values |-> SortedStrs(Missing(rows, "model", dm))],
                 [domain |-> "process", values |-> SortedStrs(Missing(rows, "process", dp))]>>
        errs == SelectSeq(all, LAMBDA e : Len(e.values) > 0)
    IN  IF errs = <<>> THEN errs ELSE <<errs[1]>>

\* the errors list of map_dataframe_to_quotas: one entry per domain with
\* missing labels, in the order cat1, cat2, model, process
MappingErrors(rows, d1, d2, dm, dp) ==
    LET all == <<[domain |-> "cat1", values |-> SortedStrs(Missing(rows, "cat1", d1))],
                 [domain |-> "cat2", values |-> SortedStrs(Missing(rows, "cat2", d2))],
                 [domain |-> "model", values |-> SortedStrs(Missing(rows, "model", dm))],
                 [domain |-> "process", values |-> SortedStrs(Missing(rows, "process", dp))]>>
    IN  SelectSeq(all, LAMBDA e : Len(e.values) > 0)

CREATED_BY == 1

\* slip: the timestamp is taken anew for every row
map_dataframe_to_quotas_row_clock(rows, d1, d2, dm, dp, now) ==
    LET errors == MappingErrors(rows, d1, d2, dm, dp)
        mapped == [i \in DOMAIN rows |->
                     [cat1_code |-> DictGet(d1, rows[i].cat1),
                      cat2_code |-> DictGet(d2, rows[i].cat2),
                      model_code |-> DictGet(dm, rows[i].model),
                      process_code |-> DictGet(dp, rows[i].process),
                      unit_price |-> rows[i].price,
                      effective_date |-> rows[i].effected_from,
                      obsolete_date |-> rows[i].obsolete_date,
                      created_by |-> CREATED_BY,
                      created_at |-> now + i]]
    IN  IF Len(errors) > 0
        THEN [ok |-> FALSE, rows |-> <<>>,
              error |-> [type |-> "ValueError", msg |-> "Mapping errors", detail |-> errors]]
        ELSE [ok |-> TRUE, rows |-> mapped, error |-> NoError]

\* map_dataframe_to_quotas(df, cat1_dict, cat2_dict, model_dict, process_dict)
\* with datetime.now() = now.  effected_from and obsolete_date are text
\* already, astype(str) leaves them as they are.
map_dataframe_to_quotas(rows, d1, d2, dm, dp, now) ==
    LET errors == MappingErrors(rows, d1, d2, dm, dp)
        mapped == [i \in DOMAIN rows |->
                     [cat1_code |-> DictGet(d1, rows[i].cat1),
                      cat2_code |-> DictGet(d2, rows[i].cat2),
                      model_code |-> DictGet(dm, rows[i].model),
                      process_code |-> DictGet(dp, rows[i].process),
                      unit_price |-> rows[i].price,
                      effective_date |-> rows[i].effected_from,
                      obsolete_date |-> rows[i].obsolete_date,
                      created_by |-> CREATED_BY,
                      created_at |-> now]]
    IN  IF Len(errors) > 0
        THEN [ok |-> FALSE, rows |-> <<>>,
              error |-> [type |-> "ValueError", msg |-> "Mapping errors", detail |-> errors]]
        ELSE [ok |-> TRUE, rows |-> mapped, error |-> NoError]

\* slip: the dictionary is used as it is
ReverseDict_same(d) == d

\* {v: k for k, v in d.items()}
ReverseDict(d) == DictFromPairs([i \in DOMAIN d |-> <<d[i][2], d[i][1]>>])

\* slip: the codes are written over the labels of the frame passed in
MapDataframe_inplace ==
    /\ pc = "map"
    /\ LET r == map_dataframe_to_quotas(df.rows, cat1_dict, cat2_dict, model_dict,
                                        process_dict, clock)
       IN  /\ quotas_df' = IF r.ok THEN DfOk(r.rows) ELSE quotas_df
           /\ raised' = r.error
           /\ pc' = IF r.ok THEN "load_to_mysql" ELSE "raised"
    /\ df' = [df EXCEPT !.rows = [i \in DOMAIN df.rows |->
                 [df.rows[i] EXCEPT !.cat1 = DictGet(cat1_dict, @)]]]
    /\ UNCHANGED <<quota, quota2, df2, tableVars, dictVars, clock, lateVars, utilVars>>

\* slip: the error of the mapping is printed and main() goes on
MapDataframe_goes_on ==
    /\ pc = "map"
    /\ LET r == map_dataframe_to_quotas(df.rows, cat1_dict, cat2_dict, model_dict,
                                        process_dict, clock)
       IN  /\ quotas_df' = IF r.ok THEN DfOk(r.rows) ELSE quotas_df
           /\ raised' = r.error
           /\ pc' = "load_to_mysql"
    /\ UNCHANGED <<calcVars, tableVars, dictVars, clock, lateVars, utilVars>>

\* main() step 3
MapDataframe ==
    /\ pc = "map"
    /\ LET r == map_dataframe_to_quotas(df.rows, cat1_dict, cat2_dict, model_dict,
                                        process_dict, clock)
       IN  /\ quotas_df' = IF r.ok THEN DfOk(r.rows) ELSE quotas_df
           /\ raised' = r.error
           /\ pc' = IF r.ok THEN "load_to_mysql" ELSE "raised"
    /\ UNCHANGED <<calcVars, tableVars, dictVars, clock, lateVars, utilVars>>

(***************************************************************************)
(* Resolution of a batch: main() about to map, dictionaries loaded         *)
(***************************************************************************)
DictRows(names, codes) == [name : names, code : codes]

\* the tables get_dict accepts
Loadable(tables) == {t \in tables : get_dict(t, "t").ok}

Cat1Tables == SeqsUpTo(DictRows({s_A, s_B, s_D}, {s_C01, s_C02}), MaxDictRows)

Cat2Tables == {<<[name |-> s_X, code |-> s_X1]>>, <<[name |-> s_Y, code |-> s_X1]>>}

ModelTables == {<<[name |-> s_M1, code |-> s_100_2]>>, <<[name |-> s_M3, code |-> s_100_2]>>}

ProcessTables ==
    {<<[name |-> s_P1, code |-> s_K1], [name |-> s_P2, code |-> s_K2]>>,
     <<[name |-> s_P3, code |-> s_K1]>>}

ResolvePool ==
    [cat1 : {s_A, s_B}, cat2 : {s_X}, model : {s_M1}, process : {s_P1, s_P2},
     price : {10}, effected_from : {20230101}]

Identity(n) == [i \in 1..n |-> i]

InitResolve ==
    /\ \E rows \in SeqsUpTo(ResolvePool, MaxMainRows) :
          /\ rows # <<>>
          /\ quota = Numbered(rows)
    /\ df = get_quota_with_obsolete_date(quota, Identity(Len(quota)))
    /\ quota2 = <<>>
    /\ df2 = DfUnset
    /\ process_cat1 \in Loadable(Cat1Tables)
    /\ process_cat2 \in Cat2Tables
    /\ motor_models \in ModelTables
    /\ processes \in ProcessTables
    /\ cat1_dict = get_cat1_dict(process_cat1).dict
    /\ cat2_dict = get_cat2_dict(process_cat2).dict
    /\ model_dict = get_model_dict(motor_models).dict
    /\ process_dict = get_process_dict(processes).dict
    /\ clock = 100
    /\ pc = "map"
    /\ quotas_df = DfUnset
    /\ raised = NoError
    /\ warning = NoError
    /\ counts = [quotas |-> 0, column_seq |-> 0]
    /\ column_seq_check = Unasked
    /\ name_in = <<>>
    /\ NoWrapperCall
    /\ NoBatch
    /\ name_out = NULL
    /\ QuietLate

NextResolve == MapDataframe

SpecResolve == InitResolve /\ [][NextResolve]_vars

\* the label columns and the column of quotas_df each is resolved into
Domains == {"cat1", "cat2", "model", "process"}

CodeColumn(dom) ==
    CASE dom = "cat1" -> "cat1_code"
      [] dom = "cat2" -> "cat2_code"
      [] dom = "model" -> "model_code"
      [] dom = "process" -> "process_code"

DictOf(dom) ==
    CASE dom = "cat1" -> cat1_dict
      [] dom = "cat2" -> cat2_dict
      [] dom = "model" -> model_dict
      [] dom = "process" -> process_dict

\* the labels of the batch the dictionary of dom has no code for
Unresolved(dom) == {df.rows[i][dom] : i \in DOMAIN df.rows} \ DictKeys(DictOf(dom))

\* C4: when labels of the batch are missing from the dictionaries, mapping
\* raises one error that lists, for every domain with a gap and for no
\* other, all the distinct unresolved labels of the batch in ascending
\* order, and no mapped rows are returned
C4_BatchValidated ==
    (pc # "map" /\ \E dom \in Domains : Unresolved(dom) # {}) =>
        /\ pc = "raised"
        /\ raised.type = "ValueError"
        /\ quotas_df.st = "unset"
        /\ \A dom \in Domains :
              LET es == {i \in DOMAIN raised.detail : raised.detail[i].domain = dom}
              IN  IF Unresolved(dom) = {} THEN es = {}
                  ELSE /\ Cardinality(es) = 1
                       /\ \A i \in es :
                            LET v == raised.detail[i].values
                            IN  /\ Range(v) = Unresolved(dom)
                                /\ \A a, b \in DOMAIN v : a < b => LexLess(v[a], v[b])

\* gaps in two domains at least, two unresolved process labels met in
\* descending order in the batch
C4_Witness ==
    /\ pc = "raised"
    /\ Len(raised.detail) >= 2
    /\ Cardinality(Unresolved("process")) = 2
    /\ Len(df.rows) >= 2
    /\ LexLess(df.rows[2].process, df.rows[1].process)

\* no two names of the dictionary have the same code
Injective(d) == \A i, j \in DOMAIN d : d[i][2] = d[j][2] => i = j

\* the code of row i in domain dom leads back to the label of the row
RoundTrip(dom, i) ==
    DictGet(ReverseDict(DictOf(dom)), quotas_df.rows[i][CodeColumn(dom)]) = df.rows[i][dom]

\* C6 as stated: every resolved code leads back to the original label
\* through the reversed dictionary, also when two names share a code
C6_RoundTrip ==
    quotas_df.st = "ok" =>
        \A dom \in Domains : \A i \in DOMAIN quotas_df.rows : RoundTrip(dom, i)

\* C6 amended: every resolved code leads back to the original label through
\* the reversed dictionary in each domain whose dictionary gives no two
\* names the same code
C6_RoundTripInjective ==
    quotas_df.st = "ok" =>
        \A dom \in Domains :
            Injective(DictOf(dom)) => \A i \in DOMAIN quotas_df.rows : RoundTrip(dom, i)

\* a batch with both category-1 labels resolved to two different codes
C6_Witness ==
    /\ quotas_df.st = "ok"
    /\ \A dom \in Domains : Injective(DictOf(dom))
    /\ Cardinality({quotas_df.rows[i].cat1_code : i \in DOMAIN quotas_df.rows}) = 2

(***************************************************************************)
(* Cross-tab report builder: text helpers                                  *)
(***************************************************************************)
\* the digits of n as text, zero padded to w characters
RECURSIVE Digits(_, _)
Digits(n, w) == IF w = 0 THEN <<>> ELSE Digits(n \div 10, w - 1) \o <<48 + (n % 10)>>

\* str of an 8-digit text date
DateText(d) == Digits(d, 8)

\* datetime.strptime(d, '%Y%m%d').strftime('%Y-%m-%d'), or d itself when
\* strptime raises ValueError
formatted_date(d) ==
    IF strptime_ok(d)
    THEN Digits(YearOf(d), 4) \o <<45>> \o Digits(MonthOf(d), 2) \o <<45>> \o Digits(DayOf(d), 2)
    ELSE DateText(d)

\* the characters  \ / ? * [ ] :
INVALID_CHARS == {92, 47, 63, 42, 91, 93, 58}

\* white space str.strip() removes
WHITESPACE ==
    {9, 10, 11, 12, 13, 28, 29, 30, 31, 32, 133, 160, 5760, 8232, 8233, 8239, 8287, 12288}
        \cup (8192..8202)

MAX_SHEET_NAME == 31

s_Sheet == <<83, 104, 101, 101, 116>>     \* "Sheet"

strip(t) ==
    LET keep == {i \in DOMAIN t : t[i] \notin WHITESPACE}
    IN  IF keep = {} THEN <<>>
        ELSE SubSeq(t, CHOOSE i \in keep : \A j \in keep : i <= j,
                       CHOOSE i \in keep : \A j \in keep : j <= i)

\* slip: the name is not cut to the 31 characters a sheet name may have
sanitize_sheet_name_uncut(name) ==
    LET sanitized == strip(SelectSeq(name, LAMBDA c : c \notin INVALID_CHARS))
    IN  IF sanitized = <<>> THEN s_Sheet ELSE sanitized

\* sanitize_sheet_name(name)
sanitize_sheet_name(name) ==
    LET sanitized == strip(SelectSeq(name, LAMBDA c : c \notin INVALID_CHARS))
        cut == IF Len(sanitized) > MAX_SHEET_NAME
               THEN SubSeq(sanitized, 1, MAX_SHEET_NAME) ELSE sanitized
    IN  IF cut = <<>> THEN s_Sheet ELSE cut

\* model_code.split('-')[0]
BeforeHyphen(code) ==
    LET hy == {i \in DOMAIN code : code[i] = 45}
    IN  IF hy = {} THEN code
        ELSE SubSeq(code, 1, (CHOOSE i \in hy : \A j \in hy : i <= j) - 1)

RECURSIVE DigitsValue(_)
DigitsValue(t) ==
    IF t = <<>> THEN 0 ELSE 10 * DigitsValue(SubSeq(t, 1, Len(t) - 1)) + (t[Len(t)] - 48)

\* slip: no code is parsed, every key is 0
get_model_sort_key_zero(model_code) == 0

\* get_model_sort_key(model_code): int() of the part before the first
\* hyphen, 0 when int() raises ValueError (codes of ASCII letters, digits
\* and hyphens: int() takes the digit strings and nothing else)
get_model_sort_key(model_code) ==
    LET part == BeforeHyphen(model_code)
    IN  IF part # <<>> /\ \A i \in DOMAIN part : part[i] \in 48..57
        THEN DigitsValue(part) ELSE 0

\* the values of a sequence in order of first appearance (Series.unique())
Unique(t) ==
    LET first == {i \in DOMAIN t : \A j \in 1..(i - 1) : t[j] # t[i]}
        ord == AscSeq(first)
    IN  [r \in 1..Len(ord) |-> t[ord[r]]]

\* dict.get(key, str(key)) on a {code: name} dictionary
NameOf(d, code) == IF code \in DictKeys(d) THEN DictGet(d, code) ELSE code

(***************************************************************************)
(* Column sequence                                                         *)
(***************************************************************************)
\* seq_dict is None, or a dict {(cat1, cat2, process): seq}
SeqNone == [none |-> TRUE, items |-> <<>>]

\* get_column_seq_dict() on the rows of the SQLite column_seq table
get_column_seq_dict(table) ==
    IF table = <<>> THEN SeqNone
    ELSE [none |-> FALSE,
          items |-> DictFromPairs([i \in DOMAIN table |->
                       <<<<table[i].cat1, table[i].cat2, table[i].process>>, table[i].seq>>])]

\* Sort keys as sequences of integers: a str is its code points, the number
\* n is <<0, n>> and float('inf') is <<1>>, above every number.
NumKey(n) == <<0, n>>
InfKey == <<1>>

\* slip: the lookup by process code comes before the lookup by process name
get_process_sort_key_code_first(process_code, cat1, cat2, process_name, seq_dict) ==
    IF seq_dict.none THEN process_code
    ELSE IF <<cat1, cat2, process_code>> \in DictKeys(seq_dict.items)
    THEN NumKey(DictGet(seq_dict.items, <<cat1, cat2, process_code>>))
    ELSE IF <<cat1, cat2, process_name>> \in DictKeys(seq_dict.items)
    THEN NumKey(DictGet(seq_dict.items, <<cat1, cat2, process_name>>))
    ELSE InfKey

\* get_process_sort_key(process_code, cat1, cat2, process_name, seq_dict)
get_process_sort_key(process_code, cat1, cat2, process_name, seq_dict) ==
    IF seq_dict.none THEN process_code
    ELSE IF <<cat1, cat2, process_name>> \in DictKeys(seq_dict.items)
    THEN NumKey(DictGet(seq_dict.items, <<cat1, cat2, process_name>>))
    ELSE IF <<cat1, cat2, process_code>> \in DictKeys(seq_dict.items)
    THEN NumKey(DictGet(seq_dict.items, <<cat1, cat2, process_code>>))
    ELSE InfKey

(***************************************************************************)
(* Cross-tab report builder: the workbook                                  *)
(***************************************************************************)
s_index_name == <<22411, 21495>>     \* the index name of a section

\* f"{name} ({code})" with sep = " ", f"{name}\n({code})" with sep = "\n"
Labelled(name, sep, code) == name \o sep \o <<40>> \o code \o <<41>>

\* the value of a cell: text, a number, or nothing
Text(t) == [kind |-> "str", v |-> t]
Number(n) == [kind |-> "num", v |-> <<n>>]
Blank == [kind |-> "none", v |-> <<>>]

\* df[['cat1_code', 'effective_date']].drop_duplicates()
\*   .sort_values(['cat1_code', 'effective_date'])
cat1_effective_pairs(rows) ==
    LET pairs == Unique([i \in DOMAIN rows |-> <<rows[i].cat1_code, rows[i].effective_date>>])
    IN  SortedBy(pairs, [i \in DOMAIN pairs |-> pairs[i][1] \o <<-1, pairs[i][2]>>])

\* the sheet name of a (cat1_code, effective_date) pair
sheet_name(pair, cat1_names) ==
    sanitize_sheet_name(NameOf(cat1_names, pair[1]) \o <<32>> \o pair[1] \o <<32>>
                        \o formatted_date(pair[2]))

\* one cat2 section: its header, its columns, its row index and its matrix
Section(cat2_df, cat2_code, cat1_name, process_names, cat2_names, model_names, seq_dict) ==
    LET cat2_name == NameOf(cat2_names, cat2_code)
        pcs == Unique([i \in DOMAIN cat2_df |-> cat2_df[i].process_code])
        unique_process_codes ==
            SortedBy(pcs, [i \in DOMAIN pcs |->
                get_process_sort_key(pcs[i], cat1_name, cat2_name,
                                     NameOf(process_names, pcs[i]), seq_dict)])
        mcs == Unique([i \in DOMAIN cat2_df |-> cat2_df[i].model_code])
        unique_model_codes ==
            SortedBy(mcs, [i \in DOMAIN mcs |-> <<get_model_sort_key(mcs[i])>>])
        unit_price(m, p) ==
            LET hit == {i \in DOMAIN cat2_df :
                           cat2_df[i].model_code = m /\ cat2_df[i].process_code = p}
            IN  IF hit = {} THEN Blank
                ELSE Number(cat2_df[CHOOSE i \in hit : \A j \in hit : i <= j].unit_price)
    IN  [cat2_header |-> Labelled(cat2_name, <<32>>, cat2_code),
         column_names |-> [j \in DOMAIN unique_process_codes |->
             Labelled(NameOf(process_names, unique_process_codes[j]), <<10>>,
                      unique_process_codes[j])],
         row_index |-> [i \in DOMAIN unique_model_codes |->
             Labelled(NameOf(model_names, unique_model_codes[i]), <<32>>,
                      unique_model_codes[i])],
         data |-> [i \in DOMAIN unique_model_codes |->
                     [j \in DOMAIN unique_process_codes |->
                         unit_price(unique_model_codes[i], unique_process_codes[j])]]]

\* the sections of one sheet, in sorted order of cat2 code
SheetSections(rows, pair, process_names, cat1_names, cat2_names, model_names, seq_dict) ==
    LET sheet_df == SelectSeq(rows, LAMBDA r : r.cat1_code = pair[1]
                                               /\ r.effective_date = pair[2])
        codes == SortedStrs({sheet_df[i].cat2_code : i \in DOMAIN sheet_df})
    IN  [k \in DOMAIN codes |->
            Section(SelectSeq(sheet_df, LAMBDA r : r.cat2_code = codes[k]), codes[k],
                    NameOf(cat1_names, pair[1]), process_names, cat2_names,
                    model_names, seq_dict)]

\* current_row when section k is written: 0, then += len(result_df) + 4
RECURSIVE current_row(_, _)
current_row(secs, k) ==
    IF k = 1 THEN 0 ELSE current_row(secs, k - 1) + Len(secs[k - 1].row_index) + 4

RECURSIVE Concat(_)
Concat(ss) == IF ss = <<>> THEN <<>> ELSE Head(ss) \o Concat(Tail(ss))

\* the to_excel calls of an export, in the order the two loops make them
to_excel_calls(rows, process_names, cat1_names, cat2_names, model_names, seq_dict) ==
    LET pairs == cat1_effective_pairs(rows)
    IN  Concat([p \in DOMAIN pairs |->
            LET secs == SheetSections(rows, pairs[p], process_names, cat1_names,
                                      cat2_names, model_names, seq_dict)
            IN  [k \in DOMAIN secs |->
                    [sheet_name |-> sheet_name(pairs[p], cat1_names),
                     current_row |-> current_row(secs, k),
                     section |-> secs[k]]]])

\* the cells one call writes: to_excel at startrow = current_row + 1 (the
\* header row of the frame is sheet row current_row + 2), then the cat2
\* header in sheet row current_row + 1, column 1
CellsOf(c) ==
    LET s == c.section
        r0 == c.current_row
        nr == Len(s.row_index)
        nc == Len(s.column_names)
        coords == {<<r0 + 1, 1>>} \cup (((r0 + 2)..(r0 + 2 + nr)) \X (1..(nc + 1)))
    IN  [x \in coords |->
            IF x[1] = r0 + 1 THEN Text(s.cat2_header)
            ELSE IF x[1] = r0 + 2
            THEN (IF x[2] = 1 THEN Text(s_index_name) ELSE Text(s.column_names[x[2] - 1]))
            ELSE IF x[2] = 1 THEN Text(s.row_index[x[1] - r0 - 2])
            ELSE s.data[x[1] - r0 - 2][x[2] - 1]]

\* the workbook a sequence of calls leaves: a call on a sheet name the
\* workbook has already writes into that sheet; a cell keeps its last value
Workbook(calls) ==
    LET names == Unique([i \in DOMAIN calls |-> calls[i].sheet_name])
        cells(name) ==
            LET on == {i \in DOMAIN calls : calls[i].sheet_name = name}
                coords == UNION {DOMAIN CellsOf(calls[i]) : i \in on}
                last(x) == CHOOSE i \in on :
                              /\ x \in DOMAIN CellsOf(calls[i])
                              /\ \A j \in on : x \in DOMAIN CellsOf(calls[j]) => j <= i
            IN  [x \in coords |-> CellsOf(calls[last(x)])[x]]
    IN  [k \in DOMAIN names |-> [title |-> names[k], cells |-> cells(names[k])]]

\* export_quota_to_excel(df, process_dict, cat1_dict, cat2_dict, model_dict,
\* output_file_name, seq_dict) when the to_excel call number fails_at raises
\* (0: none does).  Leaving the with block saves the workbook, whether or not
\* an exception is on its way out; saving a workbook with no sheet raises
\* IndexError and leaves the file empty.
export_quota_to_excel(rows, process_names, cat1_names, cat2_names, model_names, seq_dict, fails_at) ==
    LET calls == to_excel_calls(rows, process_names, cat1_names, cat2_names,
                                model_names, seq_dict)
        failed == fails_at \in 1..Len(calls)
        made == IF failed THEN SubSeq(calls, 1, fails_at - 1) ELSE calls
        book == Workbook(made)
    IN  IF book = <<>>
        THEN [file |-> [exists |-> TRUE, sheets |-> <<>>],
              error |-> [type |-> "IndexError", msg |-> "save", detail |-> <<>>]]
        ELSE [file |-> [exists |-> TRUE, sheets |-> book],
              error |-> IF failed
                        THEN [type |-> "Exception", msg |-> "to_excel", detail |-> <<>>]
                        ELSE NoError]

(***************************************************************************)
(* main(): steps 2, 4, 5 and 6                                             *)
(***************************************************************************)
\* step 2: the four dictionaries, loaded in this order inside one try block
GetCat1Dict ==
    /\ pc = "get_cat1_dict"
    /\ LET r == get_cat1_dict(process_cat1)
       IN  /\ cat1_dict' = r.dict
           /\ raised' = r.error
           /\ pc' = IF r.ok THEN "get_cat2_dict" ELSE "raised"
    /\ UNCHANGED <<calcVars, tableVars, cat2_dict, model_dict, process_dict, clock,
                   quotas_df, lateVars, utilVars>>

GetCat2Dict ==
    /\ pc = "get_cat2_dict"
    /\ LET r == get_cat2_dict(process_cat2)
       IN  /\ cat2_dict' = r.dict
           /\ raised' = r.error
           /\ pc' = IF r.ok THEN "get_model_dict" ELSE "raised"
    /\ UNCHANGED <<calcVars, tableVars, cat1_dict, model_dict, process_dict, clock,
                   quotas_df, lateVars, utilVars>>

GetModelDict ==
    /\ pc = "get_model_dict"
    /\ LET r == get_model_dict(motor_models)
       IN  /\ model_dict' = r.dict
           /\ raised' = r.error
           /\ pc' = IF r.ok THEN "get_process_dict" ELSE "raised"
    /\ UNCHANGED <<calcVars, tableVars, cat1_dict, cat2_dict, process_dict, clock,
                   quotas_df, lateVars, utilVars>>

GetProcessDict ==
    /\ pc = "get_process_dict"
    /\ LET r == get_process_dict(processes)
       IN  /\ process_dict' = r.dict
           /\ raised' = r.error
           /\ pc' = IF r.ok THEN "map" ELSE "raised"
    /\ UNCHANGED <<calcVars, tableVars, cat1_dict, cat2_dict, model_dict, clock,
                   quotas_df, lateVars, utilVars>>

\* load_to_mysql(quotas_df) on the quotas table; outcome is how the session
\* ends: "ok", "duplicate" (the insert hits a duplicate key), "error" (it
\* fails otherwise) or "no_url" (MYSQL_DB_URL is not set).  The insert is one
\* transaction: a failed insert leaves the table as it was.
load_to_mysql(rows, table, outcome) ==
    IF outcome = "no_url"
    THEN [ok |-> FALSE, table |-> table, count |-> 0,
          error |-> [type |-> "ValueError", msg |-> "MYSQL_DB_URL environment variable not set",
                     detail |-> <<>>]]
    ELSE IF outcome = "ok"
    THEN [ok |-> TRUE, table |-> table \o rows, count |-> Len(rows), error |-> NoError]
    ELSE [ok |-> FALSE, table |-> table, count |-> 0,
          error |-> [type |-> "ValueError",
                     msg |-> IF outcome = "duplicate"
                             THEN "MySQL insert failed: Duplicate entry"
                             ELSE "MySQL insert failed",
                     detail |-> <<>>]]

\* step 4: a ValueError that mentions "Duplicate entry" is a warning
LoadToMysql ==
    /\ pc = "load_to_mysql"
    /\ LET r == load_to_mysql(quotas_df.rows, mysql_quotas, mysql_insert)
           skipped == r.error.msg = "MySQL insert failed: Duplicate entry"
       IN  /\ mysql_quotas' = r.table
           /\ counts' = [counts EXCEPT !.quotas = r.count]
           /\ raised' = IF r.ok \/ skipped THEN raised ELSE r.error
           /\ pc' = IF r.ok \/ skipped THEN "column_seq" ELSE "raised"
    /\ UNCHANGED <<calcVars, tableVars, dictVars, clock, quotas_df, sqlite_column_seq,
                   mysql_column_seq, xlsx, envVars, warning, column_seq_check, utilVars>>

\* the values of a column of column_seq that are no key of the dictionary
MissingLabels(rows, col, d) == {rows[i][col] : i \in DOMAIN rows} \ DictKeys(d)

\* map_column_seq_to_mysql(df, cat1_dict, cat2_dict, process_dict)
map_column_seq_to_mysql(rows, d1, d2, dp) ==
    LET all == <<[domain |-> "cat1", values |-> SortedStrs(MissingLabels(rows, "cat1", d1))],
                 [domain |-> "cat2", values |-> SortedStrs(MissingLabels(rows, "cat2", d2))],
                 [domain |-> "process",
                  values |-> SortedStrs(MissingLabels(rows, "process", dp))]>>
        errors == SelectSeq(all, LAMBDA e : Len(e.values) > 0)
    IN  IF Len(errors) > 0
        THEN [ok |-> FALSE, rows |-> <<>>,
              error |-> [type |-> "ValueError", msg |-> "Mapping errors", detail |-> errors]]
        ELSE [ok |-> TRUE,
              rows |-> [i \in DOMAIN rows |->
                          [cat1_code |-> DictGet(d1, rows[i].cat1),
                           cat2_code |-> DictGet(d2, rows[i].cat2),
                           process_code |-> DictGet(dp, rows[i].process),
                           seq |-> rows[i].seq]],
              error |-> NoError]

\* drop_duplicates(subset=['cat1_code', 'cat2_code', 'process_code'], keep='last')
drop_duplicates_last(rows) ==
    LET key(i) == <<rows[i].cat1_code, rows[i].cat2_code, rows[i].process_code>>
        keep == {i \in DOMAIN rows : \A j \in (i + 1)..Len(rows) : key(j) # key(i)}
        ord == AscSeq(keep)
    IN  [r \in 1..Len(ord) |-> rows[ord[r]]]

s_SELECT == <<83, 69, 76, 69, 67, 84>>    \* "SELECT"

\* "SHOW TABLES LIKE 'column_seq'"
s_SHOW_TABLES ==
    <<83, 72, 79, 87, 32, 84, 65, 66, 76, 69, 83, 32, 76, 73, 75, 69, 32, 39, 99, 111, 108, 117, 109, 110, 95, 115, 101, 113, 39>>

s_column_seq == <<99, 111, 108, 117, 109, 110, 95, 115, 101, 113>>   \* "column_seq"

upper(t) == [i \in DOMAIN t |-> IF t[i] \in 97..122 THEN t[i] - 32 ELSE t[i]]

startswith(t, prefix) == Len(t) >= Len(prefix) /\ SubSeq(t, 1, Len(prefix)) = prefix

\* sql_util.mysql_sql(sq) when the server answers with result_set: a frame of
\* the rows for a statement that starts with SELECT, None for every other
\* statement
mysql_sql(sq, result_set) ==
    IF startswith(upper(strip(sq)), s_SELECT)
    THEN [is_none |-> FALSE, rows |-> result_set]
    ELSE [is_none |-> TRUE, rows |-> <<>>]

\* check_column_seq_table_exists(): False if df is None or df.empty
check_column_seq_table_exists(table) ==
    LET shown == mysql_sql(s_SHOW_TABLES, IF table.exists THEN <<s_column_seq>> ELSE <<>>)
    IN  ~(shown.is_none \/ shown.rows = <<>>)

\* create_column_seq_table(): CREATE TABLE IF NOT EXISTS
create_column_seq_table(table) == [exists |-> TRUE, rows |-> table.rows]

\* load_column_seq_to_mysql(column_seq_df) on the column_seq table: the
\* table is emptied first (TRUNCATE is not undone by a failed insert);
\* outcome "count_error": the SELECT COUNT(*) before it fails already.
\* MYSQL_DB_URL is set whenever main() gets here: step 4 raised otherwise.
load_column_seq_to_mysql(rows, table, outcome) ==
    IF outcome = "ok"
    THEN [table |-> [exists |-> TRUE, rows |-> drop_duplicates_last(rows)],
          count |-> Len(rows), error |-> NoError]
    ELSE IF outcome = "count_error"
    THEN [table |-> table, count |-> 0,
          error |-> [type |-> "ValueError", msg |-> "MySQL insert failed", detail |-> <<>>]]
    ELSE [table |-> [exists |-> TRUE, rows |-> <<>>], count |-> 0,
          error |-> [type |-> "ValueError", msg |-> "MySQL insert failed", detail |-> <<>>]]

\* step 5: check_column_seq_table_exists() gets None from mysql_sql for its
\* SHOW TABLES query and answers False, so CREATE TABLE IF NOT EXISTS always
\* runs; whatever is raised afterwards is printed as a warning and main()
\* goes on with column_seq_loaded_count = 0
LoadColumnSeq ==
    /\ pc = "column_seq"
    /\ LET exists == check_column_seq_table_exists(mysql_column_seq)
           created == IF ~exists THEN create_column_seq_table(mysql_column_seq)
                      ELSE mysql_column_seq
           m == map_column_seq_to_mysql(sqlite_column_seq, cat1_dict, cat2_dict,
                                        process_dict)
           l == load_column_seq_to_mysql(m.rows, created, column_seq_insert)
       IN  /\ column_seq_check' = [asked |-> TRUE, exists |-> exists, create |-> ~exists]
           /\ IF sqlite_column_seq = <<>>
              THEN /\ mysql_column_seq' = created
                   /\ warning' = NoError
                   /\ counts' = [counts EXCEPT !.column_seq = 0]
              ELSE IF ~m.ok
              THEN /\ mysql_column_seq' = created
                   /\ warning' = m.error
                   /\ counts' = [counts EXCEPT !.column_seq = 0]
              ELSE /\ mysql_column_seq' = l.table
                   /\ warning' = l.error
                   /\ counts' = [counts EXCEPT !.column_seq = l.count]
    /\ pc' = "export"
    /\ UNCHANGED <<calcVars, tableVars, dictVars, clock, quotas_df, raised, mysql_quotas,
                   sqlite_column_seq, xlsx, envVars, utilVars>>

\* step 6: reverse the dictionaries, read the column sequence, export; an
\* exception is printed and raised again
ExportToExcel ==
    /\ pc = "export"
    /\ LET r == export_quota_to_excel(quotas_df.rows, ReverseDict(process_dict),
                                      ReverseDict(cat1_dict), ReverseDict(cat2_dict),
                                      ReverseDict(model_dict),
                                      get_column_seq_dict(sqlite_column_seq),
                                      to_excel_fails_at)
       IN  /\ xlsx' = r.file
           /\ raised' = r.error
           /\ pc' = IF r.error = NoError THEN "done" ELSE "raised"
    /\ UNCHANGED <<calcVars, tableVars, dictVars, clock, quotas_df, mysql_quotas,
                   sqlite_column_seq, mysql_column_seq, envVars, warning, counts,
                   column_seq_check, utilVars>>

NextMain ==
    \/ RunGetQuota
    \/ GetCat1Dict
    \/ GetCat2Dict
    \/ GetModelDict
    \/ GetProcessDict
    \/ MapDataframe
    \/ LoadToMysql
    \/ LoadColumnSeq
    \/ ExportToExcel

SomeRow(name, code) == [name |-> name, code |-> code]

(***************************************************************************)
(* Runs of main() that reach the export: sheets                            *)
(***************************************************************************)
MaxExportRows == 3

ExportPool ==
    [cat1 : {s_A, s_L24}, cat2 : {s_X, s_Y}, model : {s_M1}, process : {s_P1},
     price : {10}, effected_from : {20230101, 20230601}]

FailAts == {0, 1, 2}

InitExport ==
    /\ \E rows \in SeqsUpTo(ExportPool, MaxExportRows) : quota = Numbered(rows)
    /\ quota2 = <<>>
    /\ df = DfUnset
    /\ df2 = DfUnset
    /\ MainEntered
    /\ name_in = <<>>
    /\ NoWrapperCall
    /\ NoBatch
    /\ process_cat1 = <<SomeRow(s_A, s_C01), SomeRow(s_L24, s_C02)>>
    /\ process_cat2 = <<SomeRow(s_X, s_X1), SomeRow(s_Y, s_X2)>>
    /\ motor_models = <<SomeRow(s_M1, s_100_2)>>
    /\ processes = <<SomeRow(s_P1, s_K1)>>
    /\ mysql_quotas = <<>>
    /\ sqlite_column_seq = <<>>
    /\ mysql_column_seq = [exists |-> FALSE, rows |-> <<>>]
    /\ xlsx = NoFile
    /\ mysql_insert = "ok"
    /\ column_seq_insert = "ok"
    /\ to_excel_fails_at \in FailAts

SpecExport == InitExport /\ [][NextMain]_vars

(***************************************************************************)
(* Runs of main() that reach the export: columns of one section            *)
(***************************************************************************)
MaxSeqRows == 3

\* the processes of the section, in the order the quota table has them
ColumnRows == {<<s_P1>>, <<s_P2>>, <<s_P1, s_P2>>, <<s_P2, s_P1>>}

\* column_seq rows: under a process name, under a process code, and for
\* another section
SeqPool ==
    [cat1 : {s_A}, cat2 : {s_X}, process : {s_P1, s_P2, s_K2}, seq : {1, 2}]
    \cup {[cat1 |-> s_A, cat2 |-> s_Y, process |-> s_P1, seq |-> 1]}

InitColumns ==
    /\ \E ps \in ColumnRows :
          quota = Numbered([i \in DOMAIN ps |->
                     [cat1 |-> s_A, cat2 |-> s_X, model |-> s_M1, process |-> ps[i],
                      price |-> 10, effected_from |-> 20230101]])
    /\ quota2 = <<>>
    /\ df = DfUnset
    /\ df2 = DfUnset
    /\ MainEntered
    /\ name_in = <<>>
    /\ NoWrapperCall
    /\ NoBatch
    /\ process_cat1 = <<SomeRow(s_A, s_C01)>>
    /\ process_cat2 = <<SomeRow(s_X, s_X1), SomeRow(s_Y, s_X2)>>
    /\ motor_models = <<SomeRow(s_M1, s_100_2)>>
    /\ processes = <<SomeRow(s_P1, s_K1), SomeRow(s_P2, s_K2)>>
    /\ mysql_quotas = <<>>
    /\ sqlite_column_seq \in SeqsUpTo(SeqPool, MaxSeqRows)
    /\ mysql_column_seq = [exists |-> FALSE, rows |-> <<>>]
    /\ xlsx = NoFile
    /\ mysql_insert = "ok"
    /\ column_seq_insert = "ok"
    /\ to_excel_fails_at = 0

SpecColumns == InitColumns /\ [][NextMain]_vars

(***************************************************************************)
(* Runs of main() with faulty tables and failing stores                    *)
(***************************************************************************)
MainPool ==
    [cat1 : {s_A, s_D}, cat2 : {s_X}, model : {s_M1}, process : {s_P1},
     price : {10}, effected_from : {20230101}]

MainCat1Tables ==
    {<<SomeRow(s_A, s_C01), SomeRow(s_B, s_C02)>>,
     <<SomeRow(s_A, s_C01), SomeRow(s_A, s_C02)>>,
     <<>>}

MainCat2Tables ==
    {<<SomeRow(s_X, s_X1)>>, <<SomeRow(s_X, s_X1), SomeRow(s_X, s_X2)>>}

MainModelTables ==
    {<<SomeRow(s_M1, s_100_2)>>, <<SomeRow(s_M1, s_100_2), SomeRow(s_M1, s_63_1)>>}

MainProcessTables ==
    {<<SomeRow(s_P1, s_K1), SomeRow(s_P2, s_K2)>>,
     <<SomeRow(s_P1, s_K1), SomeRow(s_P1, s_K2)>>}

SeqRow(process, seq) == [cat1 |-> s_A, cat2 |-> s_X, process |-> process, seq |-> seq]

MainSeqTables ==
    {<<>>, <<SeqRow(s_P1, 1)>>, <<SeqRow(s_P3, 1)>>, <<SeqRow(s_P1, 1), SeqRow(s_P1, 2)>>}

InitMain ==
    /\ \E rows \in SeqsUpTo(MainPool, MaxMainRows) : quota = Numbered(rows)
    /\ quota2 = <<>>
    /\ df = DfUnset
    /\ df2 = DfUnset
    /\ MainEntered
    /\ name_in = <<>>
    /\ NoWrapperCall
    /\ NoBatch
    /\ process_cat1 \in MainCat1Tables
    /\ process_cat2 \in MainCat2Tables
    /\ motor_models \in MainModelTables
    /\ processes \in MainProcessTables
    /\ mysql_quotas = <<>>
    /\ sqlite_column_seq \in MainSeqTables
    /\ mysql_column_seq = [exists |-> FALSE, rows |-> <<>>]
    /\ xlsx = NoFile
    /\ mysql_insert \in {"ok", "duplicate", "error", "no_url"}
    /\ column_seq_insert \in {"ok", "error"}
    /\ to_excel_fails_at \in {0, 1}

SpecMain == InitMain /\ [][NextMain]_vars

(***************************************************************************)
(* Properties of the dictionaries and of error propagation                 *)
(***************************************************************************)
TableOf(dom) ==
    CASE dom = "cat1" -> process_cat1
      [] dom = "cat2" -> process_cat2
      [] dom = "model" -> motor_models
      [] dom = "process" -> processes

TableName(dom) ==
    CASE dom = "cat1" -> "process_cat1"
      [] dom = "cat2" -> "process_cat2"
      [] dom = "model" -> "motor_models"
      [] dom = "process" -> "processes"

LoadStep(dom) ==
    CASE dom = "cat1" -> "get_cat1_dict"
      [] dom = "cat2" -> "get_cat2_dict"
      [] dom = "model" -> "get_model_dict"
      [] dom = "process" -> "get_process_dict"

\* how far main() is; 0 once it has returned early or raised
Stage(p) ==
    CASE p = "get_quota" -> 1
      [] p = "get_cat1_dict" -> 2
      [] p = "get_cat2_dict" -> 3
      [] p = "get_model_dict" -> 4
      [] p = "get_process_dict" -> 5
      [] p = "map" -> 6
      [] p = "load_to_mysql" -> 7
      [] p = "column_seq" -> 8
      [] p = "export" -> 9
      [] p = "done" -> 10
      [] OTHER -> 0

\* one name on two rows with two codes
Ambiguous(t) == \E i, j \in DOMAIN t : t[i].name = t[j].name /\ t[i].code # t[j].code

LoadedBefore(dom) ==
    \A e \in Domains : Stage(LoadStep(e)) < Stage(LoadStep(dom)) => DictOf(e) # <<>>

\* C5: a dictionary table in which one name has two codes is fatal when it
\* is loaded: main() never gets past that load, no dictionary is built from
\* the table (so neither code is kept), no record is resolved, and once the
\* earlier dictionaries are loaded main() ends with the duplicate-name error
\* of that table
C5_AmbiguousDictionaryFatal ==
    \A dom \in Domains :
        Ambiguous(TableOf(dom)) =>
            /\ Stage(pc) <= Stage(LoadStep(dom))
            /\ DictOf(dom) = <<>>
            /\ quotas_df.st = "unset"
            /\ (pc = "raised" /\ df.st = "ok" /\ LoadedBefore(dom)) =>
                  /\ raised.type = "ValueError"
                  /\ raised.msg = "Duplicate names found"
                  /\ raised.detail[1].domain = TableName(dom)

\* the processes table is ambiguous, the three other dictionaries are loaded
\* and main() has raised
C5_Witness ==
    /\ Ambiguous(processes)
    /\ cat1_dict # <<>> /\ cat2_dict # <<>> /\ model_dict # <<>>
    /\ pc = "raised"
    /\ raised.msg = "Duplicate names found"

IntegrityError(e) ==
    e.type = "ValueError" /\ e.msg \in {"Duplicate names found", "Mapping errors"}

\* C10 as stated: whichever step raises a data-integrity error, the column
\* sequence mapping included, main() ends by raising it
C10_NeverSwallowed == IntegrityError(warning) => (pc = "raised" /\ raised = warning)

UnknownSeqLabels ==
    \E i \in DOMAIN sqlite_column_seq :
        \/ sqlite_column_seq[i].cat1 \notin DictKeys(cat1_dict)
        \/ sqlite_column_seq[i].cat2 \notin DictKeys(cat2_dict)
        \/ sqlite_column_seq[i].process \notin DictKeys(process_dict)

\* C10 amended: a data-integrity error of dictionary loading or of the
\* resolution of the quota records is never swallowed: a dictionary exists
\* only for a table without a repeated name, the steps after the resolution
\* run only when every label of every record has a code, and main() has
\* ended when such an error is its exception.  The one integrity error that
\* is reported as a warning is the missing-label error of the column
\* sequence mapping of step 5.
C10_CoreErrorsPropagate ==
    /\ \A dom \in Domains :
          DictOf(dom) # <<>> =>
              \A i, j \in DOMAIN TableOf(dom) :
                  i # j => TableOf(dom)[i].name # TableOf(dom)[j].name
    /\ Stage(pc) >= 7 => quotas_df.st = "ok"
    /\ quotas_df.st = "ok" => \A dom \in Domains : Unresolved(dom) = {}
    /\ IntegrityError(raised) => pc = "raised"
    /\ IntegrityError(warning) =>
          /\ warning.msg = "Mapping errors"
          /\ UnknownSeqLabels
          /\ Stage(pc) >= 9 \/ pc = "raised"

\* a record with a label the dictionary lacks: main() has raised the mapping
\* error and nothing was loaded
C10_Witness ==
    /\ pc = "raised"
    /\ raised.msg = "Mapping errors"
    /\ Unresolved("cat1") # {}
    /\ mysql_quotas = <<>>
    /\ ~xlsx.exists

(***************************************************************************)
(* Properties of the workbook                                              *)
(***************************************************************************)
PairsOf(rows) == {<<rows[i].cat1_code, rows[i].effective_date>> : i \in DOMAIN rows}

PairLess(a, b) == LexLess(a[1], b[1]) \/ (a[1] = b[1] /\ a[2] < b[2])

\* C7 as stated: after an export the workbook has one sheet for every
\* distinct (cat1_code, effective_date) pair of the resolved rows, and the
\* k-th sheet is the sheet of the k-th pair in ascending order
C7_OneSheetPerPair ==
    pc = "done" =>
        LET pairs == PairsOf(quotas_df.rows)
            kth(k) == CHOOSE a \in pairs :
                         Cardinality({b \in pairs : PairLess(b, a)}) = k - 1
        IN  /\ Len(xlsx.sheets) = Cardinality(pairs)
            /\ \A k \in DOMAIN xlsx.sheets :
                  xlsx.sheets[k].title = sheet_name(kth(k), ReverseDict(cat1_dict))

\* C9 as stated: when the export raises, the output file holds no sheet
C9_NoPartialWorkbook ==
    (pc = "raised" /\ raised.type \in {"Exception", "IndexError"}) => xlsx.sheets = <<>>

\* the export has written exactly one section: one cat1, one date, one cat2
OneSection ==
    /\ pc = "done"
    /\ Cardinality({<<quotas_df.rows[i].cat1_code, quotas_df.rows[i].effective_date,
                      quotas_df.rows[i].cat2_code>> : i \in DOMAIN quotas_df.rows}) = 1

\* the seq the column sequence table gives a key, -1 when it has none; of
\* two rows with one key the later counts
SeqUnder(c1, c2, p) ==
    LET hits == {i \in DOMAIN sqlite_column_seq :
                    /\ sqlite_column_seq[i].cat1 = c1
                    /\ sqlite_column_seq[i].cat2 = c2
                    /\ sqlite_column_seq[i].process = p}
    IN  IF hits = {} THEN -1
        ELSE sqlite_column_seq[CHOOSE i \in hits : \A j \in hits : j <= i].seq

LabelOf(t, code) == t[CHOOSE i \in DOMAIN t : t[i].code = code].name

\* the seq C8 gives a column of the one section, -1 when it has none
ColumnSeq(code) ==
    LET c1 == quota[1].cat1
        c2 == quota[1].cat2
    IN  IF SeqUnder(c1, c2, LabelOf(processes, code)) # -1
        THEN SeqUnder(c1, c2, LabelOf(processes, code))
        ELSE SeqUnder(c1, c2, code)

\* p has a seq, and q has a greater one or none
SeqBefore(p, q) ==
    /\ ColumnSeq(p) # -1
    /\ ColumnSeq(q) = -1 \/ ColumnSeq(p) < ColumnSeq(q)

\* the sheet columns whose header is the header of this process
HeaderCols(code) ==
    {x[2] : x \in {y \in DOMAIN xlsx.sheets[1].cells :
                      /\ y[1] = 2 /\ y[2] >= 2
                      /\ xlsx.sheets[1].cells[y]
                            = Text(Labelled(LabelOf(processes, code), <<10>>, code))}}

\* C8: in a section every process has one column; without a column sequence
\* table the columns are in the order of the raw process codes; with one, a
\* column whose seq (under the process name, else under the process code,
\* else none) is smaller stands to the left, and a column without seq stands
\* to the right of every column with one
C8_ColumnOrder ==
    OneSection =>
        LET codes == {quotas_df.rows[i].process_code : i \in DOMAIN quotas_df.rows}
        IN  /\ \A p \in codes : Cardinality(HeaderCols(p)) = 1
            /\ \A p, q \in codes : \A a \in HeaderCols(p) : \A b \in HeaderCols(q) :
                  IF sqlite_column_seq = <<>>
                  THEN LexLess(p, q) => a < b
                  ELSE SeqBefore(p, q) => a < b

\* a column found under its process code only stands left of a column found
\* under its process name, against the order of the codes
C8_Witness ==
    /\ OneSection
    /\ \E p, q \in {quotas_df.rows[i].process_code : i \in DOMAIN quotas_df.rows} :
          /\ LexLess(p, q)
          /\ SeqUnder(s_A, s_X, LabelOf(processes, p)) # -1
          /\ SeqUnder(s_A, s_X, LabelOf(processes, q)) = -1
          /\ SeqUnder(s_A, s_X, q) # -1
          /\ \E a \in HeaderCols(p) : \E b \in HeaderCols(q) : b < a

(***************************************************************************)
(* The interval calculator on malformed dates                              *)
(***************************************************************************)
\* texts strptime rejects: month 00, 30 February, month 13
BadDates == {20230001, 20230230, 20231301}

DatePool ==
    [cat1 : {s_A}, cat2 : {s_X}, model : Models, process : {s_P1},
     price : {10}, effected_from : {20230101, 20230601} \cup BadDates]

InitDates ==
    /\ \E rows \in SeqsUpTo(DatePool, MaxRows) : quota = Numbered(rows)
    /\ quota2 = <<>>
    /\ df = DfUnset
    /\ df2 = DfUnset
    /\ MainEntered
    /\ name_in = <<>>
    /\ NoWrapperCall
    /\ NoBatch
    /\ QuietStores

SpecDates == InitDates /\ [][NextCalc]_vars

\* the rows of a group whose effected_from is no valid YYYYMMDD date
Malformed(q) == {i \in DOMAIN q : ~HasNullKey(q[i]) /\ ~strptime_ok(q[i].effected_from)}

CarriesValue(e, v) == \E j \in DOMAIN e.detail : v \in Range(e.detail[j].values)

CarriesKey(e, k) ==
    \E j \in DOMAIN e.detail : \A c \in 1..4 : k[c] \in Range(e.detail[j].values)

\* C11 as stated: when a record of the table has a malformed effected_from,
\* wherever it stands in its group, the interval calculation raises, its
\* error carries the malformed text and the grouping key of a malformed
\* record, and no row is returned
C11_MalformedDateFails ==
    (df.st # "unset" /\ Malformed(quota) # {}) =>
        /\ df.st = "raised"
        /\ df.rows = <<>>
        /\ \E i \in Malformed(quota) :
              /\ CarriesValue(df.error, DateText(quota[i].effected_from))
              /\ CarriesKey(df.error, GroupKey(quota[i]))

(***************************************************************************)
(* Runs of main() on malformed dates and unknown labels                    *)
(***************************************************************************)
FramePool ==
    [cat1 : {s_A, s_D}, cat2 : {s_X}, model : {s_M1}, process : {s_P1},
     price : {10}, effected_from : {20230101, 20231301}]

InitFrame ==
    /\ \E rows \in SeqsUpTo(FramePool, MaxMainRows) : quota = Numbered(rows)
    /\ quota2 = <<>>
    /\ df = DfUnset
    /\ df2 = DfUnset
    /\ MainEntered
    /\ name_in = <<>>
    /\ NoWrapperCall
    /\ NoBatch
    /\ process_cat1 = <<SomeRow(s_A, s_C01), SomeRow(s_B, s_C02)>>
    /\ process_cat2 = <<SomeRow(s_X, s_X1)>>
    /\ motor_models = <<SomeRow(s_M1, s_100_2)>>
    /\ processes = <<SomeRow(s_P1, s_K1)>>
    /\ QuietLate

SpecFrame == InitFrame /\ [][NextMain]_vars

C13_DirectColumns ==
    quotas_df.st = "ok" =>
        /\ Len(quotas_df.rows) = Len(df.rows)
        /\ \A i \in DOMAIN quotas_df.rows :
              /\ quotas_df.rows[i].unit_price = df.rows[i].price
              /\ quotas_df.rows[i].effective_date = df.rows[i].effected_from
              /\ quotas_df.rows[i].obsolete_date = df.rows[i].obsolete_date
              /\ quotas_df.rows[i].created_by = 1
              /\ \A j \in DOMAIN quotas_df.rows :
                    quotas_df.rows[j].created_at = quotas_df.rows[i].created_at

\* a batch of two resolved rows with different obsolete dates and one
\* timestamp, the time of the resolution
C13_Witness ==
    /\ quotas_df.st = "ok"
    /\ Len(quotas_df.rows) = 2
    /\ quotas_df.rows[1].obsolete_date # quotas_df.rows[2].obsolete_date
    /\ quotas_df.rows[1].created_at = clock
    /\ quotas_df.rows[2].created_at = clock

(***************************************************************************)
(* Runs of main() that reach the export: rows of one section               *)
(***************************************************************************)
MaxModelRows == 3

\* the models of the section, in the order the quota table has them
ModelRows == SeqsUpTo({s_M1, s_M2, s_M3, s_M4}, MaxModelRows)

InitModels ==
    /\ \E ms \in ModelRows :
          quota = Numbered([i \in DOMAIN ms |->
                     [cat1 |-> s_A, cat2 |-> s_X, model |-> ms[i], process |-> s_P1,
                      price |-> 10, effected_from |-> 20230101]])
    /\ quota2 = <<>>
    /\ df = DfUnset
    /\ df2 = DfUnset
    /\ MainEntered
    /\ name_in = <<>>
    /\ NoWrapperCall
    /\ NoBatch
    /\ process_cat1 = <<SomeRow(s_A, s_C01)>>
    /\ process_cat2 = <<SomeRow(s_X, s_X1)>>
    /\ motor_models = <<SomeRow(s_M1, s_100_2), SomeRow(s_M2, s_63_1),
                        SomeRow(s_M3, s_999), SomeRow(s_M4, s_abc)>>
    /\ processes = <<SomeRow(s_P1, s_K1)>>
    /\ QuietLate

SpecModels == InitModels /\ [][NextMain]_vars

\* the sort keys C14 names
ExpectedKey(code) ==
    CASE code = s_100_2 -> 100
      [] code = s_63_1 -> 63
      [] code = s_999 -> 999
      [] code = s_abc -> 0

\* the sheet rows whose index cell is the label of this model
IndexRows(code) ==
    {x[1] : x \in {y \in DOMAIN xlsx.sheets[1].cells :
                      /\ y[2] = 1 /\ y[1] >= 3
                      /\ xlsx.sheets[1].cells[y]
                            = Text(Labelled(LabelOf(motor_models, code), <<32>>, code))}}

\* C14: in a section every model has one row, a model with a smaller sort
\* key stands above a model with a greater one, the keys being 100 for
\* "100-2", 63 for "63-1", 999 for "999" and 0 for "abc" and for a value
\* that is no string; main() does not raise on the unparseable code
C14_RowOrder ==
    /\ \A code \in {s_100_2, s_63_1, s_999, s_abc} :
          get_model_sort_key(code) = ExpectedKey(code)
    /\ get_model_sort_key(NULL) = 0
    /\ raised = NoError
    /\ OneSection =>
          LET codes == {quotas_df.rows[i].model_code : i \in DOMAIN quotas_df.rows}
          IN  /\ \A m \in codes : Cardinality(IndexRows(m)) = 1
              /\ \A m, n \in codes : \A a \in IndexRows(m) : \A b \in IndexRows(n) :
                    ExpectedKey(m) < ExpectedKey(n) => a < b

\* "abc", "63-1" and "100-2" stand in this order, the reverse of the order
\* of the texts and of the order the table has them in
C14_Witness ==
    /\ OneSection
    /\ Len(quota) = 3
    /\ quota[1].model = s_M1 /\ quota[2].model = s_M2 /\ quota[3].model = s_M4
    /\ IndexRows(s_abc) = {3}
    /\ IndexRows(s_63_1) = {4}
    /\ IndexRows(s_100_2) = {5}

(***************************************************************************)
(* Properties of the sections of a sheet                                   *)
(***************************************************************************)
\* the sheet of a (cat1_code, effective_date) pair
SheetOf(pair) ==
    xlsx.sheets[CHOOSE k \in DOMAIN xlsx.sheets :
                    xlsx.sheets[k].title = sheet_name(pair, ReverseDict(cat1_dict))]

\* the rows of quotas_df of a pair, and of a pair and a cat2 code
RowsOfPair(pair) ==
    SelectSeq(quotas_df.rows,
              LAMBDA r : r.cat1_code = pair[1] /\ r.effective_date = pair[2])

RowsOfSection(pair, c) == SelectSeq(RowsOfPair(pair), LAMBDA r : r.cat2_code = c)

Cat2Of(pair) == {RowsOfPair(pair)[i].cat2_code : i \in DOMAIN RowsOfPair(pair)}

Cat2Codes == {cat2_dict[i][2] : i \in DOMAIN cat2_dict}

\* the sheet rows whose first cell is the header of this cat2 code
HeaderRows(sh, c) ==
    {y[1] : y \in {z \in DOMAIN sh.cells :
                      /\ z[2] = 1
                      /\ sh.cells[z] = Text(Labelled(LabelOf(process_cat2, c), <<32>>, c))}}

\* the sheet rows that are the column-header row of a section
TableRows(sh) ==
    {y[1] : y \in {z \in DOMAIN sh.cells : z[2] = 1 /\ sh.cells[z] = Text(s_index_name)}}

\* C15 as stated: the sheet of a pair has exactly one section for every
\* cat2 code of the rows of the pair and no other section, the sections
\* stand in ascending order of cat2 code, and the table of each section
\* stands right under its header cell "{cat2 name} ({cat2 code})"
C15_SectionsOfSheet ==
    pc = "done" =>
        \A pair \in PairsOf(quotas_df.rows) :
            LET sh == SheetOf(pair)
                present == {c \in Cat2Codes : HeaderRows(sh, c) # {}}
            IN  /\ present = Cat2Of(pair)
                /\ \A c \in present : Cardinality(HeaderRows(sh, c)) = 1
                /\ \A c, e \in present : \A a \in HeaderRows(sh, c) :
                      \A b \in HeaderRows(sh, e) : LexLess(c, e) => a < b
                /\ TableRows(sh) = {r + 1 : r \in UNION {HeaderRows(sh, c) : c \in present}}

(***************************************************************************)
(* Runs of main() that reach the export: the matrix of a section           *)
(***************************************************************************)
MaxMatrixRows == 3

\* records of one long category: two (model, process) combinations, which
\* leave cells of a 2 x 2 matrix empty, in sections of one or two rows
MatrixPool ==
    {[cat1 |-> s_L24, cat2 |-> c2, model |-> mp[1], process |-> mp[2],
      price |-> pr, effected_from |-> d] :
        c2 \in {s_X, s_Y}, mp \in {<<s_M1, s_P1>>, <<s_M2, s_P2>>},
        pr \in {10, 12}, d \in {20230101, 20230601}}

InitMatrix ==
    /\ \E rows \in SeqsUpTo(MatrixPool, MaxMatrixRows) : quota = Numbered(rows)
    /\ quota2 = <<>>
    /\ df = DfUnset
    /\ df2 = DfUnset
    /\ MainEntered
    /\ name_in = <<>>
    /\ NoWrapperCall
    /\ NoBatch
    /\ process_cat1 = <<SomeRow(s_A, s_C01), SomeRow(s_L24, s_C02)>>
    /\ process_cat2 = <<SomeRow(s_X, s_X1), SomeRow(s_Y, s_X2)>>
    /\ motor_models = <<SomeRow(s_M1, s_100_2), SomeRow(s_M2, s_63_1)>>
    /\ processes = <<SomeRow(s_P1, s_K1), SomeRow(s_P2, s_K2)>>
    /\ QuietLate

SpecMatrix == InitMatrix /\ [][NextMain]_vars

CellAt(sh, r, c) == IF <<r, c>> \in DOMAIN sh.cells THEN sh.cells[<<r, c>>] ELSE Blank

\* the section headed at sheet row h shows the rows of this subset: its
\* index column lists exactly the models, its header row exactly the
\* processes, and the cell of a model and a process holds the price of a row
\* with both, or nothing when there is no such row
ShowsMatrix(sh, h, rows) ==
    LET models == {rows[i].model_code : i \in DOMAIN rows}
        procs == {rows[i].process_code : i \in DOMAIN rows}
        nr == Cardinality(models)
        nc == Cardinality(procs)
        mrow(m) == {r \in (h + 2)..(h + 1 + nr) :
                       CellAt(sh, r, 1) = Text(Labelled(LabelOf(motor_models, m), <<32>>, m))}
        pcol(p) == {c \in 2..(nc + 1) :
                       CellAt(sh, h + 1, c) = Text(Labelled(LabelOf(processes, p), <<10>>, p))}
        prices(m, p) == {rows[i].unit_price :
                            i \in {j \in DOMAIN rows : rows[j].model_code = m
                                                       /\ rows[j].process_code = p}}
    IN  /\ \A m \in models : Cardinality(mrow(m)) = 1
        /\ \A p \in procs : Cardinality(pcol(p)) = 1
        /\ CellAt(sh, h + 2 + nr, 1) = Blank
        /\ CellAt(sh, h + 1, nc + 2) = Blank
        /\ \A m \in models : \A p \in procs : \A r \in mrow(m) : \A c \in pcol(p) :
              IF prices(m, p) = {} THEN CellAt(sh, r, c) = Blank
              ELSE \E v \in prices(m, p) : CellAt(sh, r, c) = Number(v)

\* C16 as stated: the section of a (cat1, date, cat2) subset has one row for
\* every model and one column for every process of the subset and no other;
\* the cell of a model and a process holds the unit_price of a row of the
\* subset with that model and process, and is blank when there is none
C16_SectionMatrix ==
    pc = "done" =>
        \A pair \in PairsOf(quotas_df.rows) : \A c \in Cat2Of(pair) :
            /\ HeaderRows(SheetOf(pair), c) # {}
            /\ \A h \in HeaderRows(SheetOf(pair), c) :
                  ShowsMatrix(SheetOf(pair), h, RowsOfSection(pair, c))

(***************************************************************************)
(* Properties of the rows of a sheet                                       *)
(***************************************************************************)
\* the to_excel calls of the finished export, recomputed from what it read
Calls ==
    to_excel_calls(quotas_df.rows, ReverseDict(process_dict), ReverseDict(cat1_dict),
                   ReverseDict(cat2_dict), ReverseDict(model_dict),
                   get_column_seq_dict(sqlite_column_seq))

CallsOn(title) == SelectSeq(Calls, LAMBDA c : c.sheet_name = title)

\* the sheet rows of a section: header, column header and n data rows
RowsOfCall(c) == (c.current_row + 1)..(c.current_row + 2 + Len(c.section.row_index))

RowIsBlank(sh, r) == \A x \in DOMAIN sh.cells : x[1] = r => sh.cells[x] = Blank

\* C17 as stated: in every sheet of the workbook the sections written to it
\* start n + 4 rows apart (n the data rows of the earlier one), any two of
\* them occupy disjoint rows, the header of each is still in its row, and
\* the two rows after a section's last data row are blank
C17_SectionRows ==
    pc = "done" =>
        \A k \in DOMAIN xlsx.sheets :
            LET sh == xlsx.sheets[k]
                on == CallsOn(sh.title)
            IN  /\ \A i \in DOMAIN on :
                      /\ CellAt(sh, on[i].current_row + 1, 1) = Text(on[i].section.cat2_header)
                      /\ \A r \in RowsOfCall(on[i]) : ~RowIsBlank(sh, r)
                      /\ RowIsBlank(sh, on[i].current_row + 3 + Len(on[i].section.row_index))
                      /\ RowIsBlank(sh, on[i].current_row + 4 + Len(on[i].section.row_index))
                /\ \A i \in 1..(Len(on) - 1) :
                      on[i + 1].current_row
                          = on[i].current_row + Len(on[i].section.row_index) + 4
                /\ \A i, j \in DOMAIN on : i # j => RowsOfCall(on[i]) \cap RowsOfCall(on[j]) = {}

(***************************************************************************)
(* Records of one group with the same effected_from                        *)
(***************************************************************************)
Tied(q, i, j) ==
    /\ i < j
    /\ GroupKey(q[i]) = GroupKey(q[j])
    /\ q[i].effected_from = q[j].effected_from

OutRow(rows, c) == CHOOSE r \in Range(rows) : r.code = c

MaxNameLen == 3

\* 'A', ':', '/', ' ' and tab
NameChars == {65, 58, 47, 32, 9}

Repeat(c, n) == [i \in 1..n |-> c]

\* short names of all shapes; the default name itself, bare and wrapped;
\* names around the length limit, with a disallowed character or a blank
\* where the cut falls
NamePool ==
    SeqsUpTo(NameChars, MaxNameLen)
    \cup {s_Sheet, <<32>> \o s_Sheet \o <<58>>, <<58, 32>> \o s_Sheet}
    \cup {pre \o Repeat(76, n) \o post :
            pre \in {<<>>, <<32>>, <<58>>}, n \in 29..33,
            post \in {<<>>, <<32, 66>>, <<58, 66>>, <<66, 32>>}}

InitSanitize ==
    /\ name_in \in NamePool
    /\ NoWrapperCall
    /\ NoBatch
    /\ quota = <<>>
    /\ quota2 = <<>>
    /\ df = DfUnset
    /\ df2 = DfUnset
    /\ MainEntered
    /\ QuietStores

\* one call sanitize_sheet_name(name_in)
SanitizeSheetName ==
    /\ name_out = NULL
    /\ name_out' = sanitize_sheet_name(name_in)
    /\ UNCHANGED <<calcVars, pc, tableVars, dictVars, clock, quotas_df, raised, lateVars,
                   name_in, retryVars, encodeVars>>

SpecSanitize == InitSanitize /\ [][SanitizeSheetName]_vars

\* what remains of n once the disallowed characters and then the white space
\* around the rest are taken away: the part of the kept characters from the
\* first to the last that is not white space
Remains(n) ==
    LET kept == SelectSeq(n, LAMBDA c : c \notin INVALID_CHARS)
        ink == {k \in DOMAIN kept : kept[k] \notin WHITESPACE}
    IN  IF ink = {} THEN <<>>
        ELSE CHOOSE t \in {SubSeq(kept, i, j) : i, j \in ink} :
                \E i, j \in ink : /\ t = SubSeq(kept, i, j)
                                  /\ \A k \in ink : i <= k /\ k <= j

SheetNameOk(t) ==
    /\ \A k \in DOMAIN t : t[k] \notin INVALID_CHARS
    /\ Len(t) >= 1
    /\ Len(t) <= 31

\* C19 as stated: the result has no disallowed character, has 1 to 31
\* characters, and is 'Sheet' exactly when nothing remains of the input
C19_SheetIffNothingRemains ==
    name_out # NULL =>
        /\ SheetNameOk(name_out)
        /\ (name_out = s_Sheet <=> Remains(name_in) = <<>>)

\* C19: the result has no disallowed character and has 1 to 31 characters;
\* it is 'Sheet' when nothing remains of the input, and otherwise the first
\* 31 characters of what remains (hence 'Sheet' also when that is what
\* remains)
C19_SanitizedName ==
    name_out # NULL =>
        /\ SheetNameOk(name_out)
        /\ (Remains(name_in) = <<>> => name_out = s_Sheet)
        /\ (Remains(name_in) # <<>> =>
               \E n \in 1..31 :
                   /\ name_out = SubSeq(Remains(name_in), 1, n)
                   /\ (n = Len(Remains(name_in)) \/ (n = 31 /\ Len(Remains(name_in)) > 31)))

\* a name longer than 31 characters with a disallowed character was cut
C19_Witness ==
    /\ name_out # NULL
    /\ Len(Remains(name_in)) > 31
    /\ \E k \in DOMAIN name_in : name_in[k] \in INVALID_CHARS
    /\ Len(name_out) = 31

(***************************************************************************)
(* An empty quota table                                                    *)
(***************************************************************************)
\* C20: when the quota table holds no record, main() ends after step 1 by
\* its return: the frame is empty, nothing is raised or warned of, no
\* dictionary is loaded, nothing is written to MySQL and no workbook exists
C20_EmptyInput ==
    (quota = <<>> /\ pc # "get_quota") =>
        /\ pc = "returned"
        /\ df = DfOk(<<>>)
        /\ raised = NoError
        /\ warning = NoError
        /\ cat1_dict = <<>> /\ cat2_dict = <<>> /\ model_dict = <<>> /\ process_dict = <<>>
        /\ quotas_df = DfUnset
        /\ mysql_quotas = <<>>
        /\ mysql_column_seq = [exists |-> FALSE, rows |-> <<>>]
        /\ counts = [quotas |-> 0, column_seq |-> 0]
        /\ xlsx = NoFile

\* main() has returned on an empty table although there were dictionary rows
\* and column sequences to read
C20_Witness ==
    /\ quota = <<>>
    /\ pc = "returned"
    /\ process_cat1 # <<>>
    /\ sqlite_column_seq # <<>>

(***************************************************************************)
(* sql_util.retry: the wrapper of a decorated function                     *)
(***************************************************************************)
MaxRetries == 2

\* what one invocation of the wrapped function does: it returns a value, it
\* raises an Exception, or it raises a BaseException that is no Exception
\* (KeyboardInterrupt, SystemExit), which the except clause does not catch
Returns(v) == [kind |-> "return", v |-> v]
Raises(e) == [kind |-> "Exception", v |-> e]
Interrupts(e) == [kind |-> "BaseException", v |-> e]

Outcomes == {Returns(1), Raises(1), Raises(2), Interrupts(3)}

InitRetry ==
    /\ max_retries \in 0..MaxRetries
    /\ outcomes \in [1..(max_retries + 1) -> Outcomes]
    /\ wrapper_pc = "try"
    /\ attempt = 0
    /\ last_exception = NULL
    /\ invocations = 0
    /\ sleeps = 0
    /\ wrapper_out = NULL
    /\ quota = <<>>
    /\ quota2 = <<>>
    /\ df = DfUnset
    /\ df2 = DfUnset
    /\ MainEntered
    /\ name_in = <<>>
    /\ NoBatch
    /\ QuietStores

NotOfWrapper == <<calcVars, pc, tableVars, dictVars, clock, quotas_df, raised, lateVars, sheetVars, encodeVars>>

\* line 33: return func(*args, **kwargs)
Try ==
    /\ wrapper_pc = "try"
    /\ invocations' = invocations + 1
    /\ LET o == outcomes[invocations + 1]
       IN  /\ wrapper_pc' = CASE o.kind = "return" -> "returned"
                              [] o.kind = "Exception" -> "except"
                              [] OTHER -> "raised"
           /\ wrapper_out' = IF o.kind = "Exception" THEN wrapper_out ELSE o
    /\ UNCHANGED <<max_retries, outcomes, attempt, last_exception, sleeps, NotOfWrapper>>

\* slip: the wrapper sleeps after the last attempt too
Except_sleeps_always ==
    /\ wrapper_pc = "except"
    /\ last_exception' = outcomes[invocations]
    /\ sleeps' = sleeps + 1
    /\ IF attempt < max_retries
       THEN /\ attempt' = attempt + 1
            /\ wrapper_pc' = "try"
            /\ wrapper_out' = wrapper_out
       ELSE /\ wrapper_pc' = "raised"
            /\ wrapper_out' = outcomes[invocations]
            /\ attempt' = attempt
    /\ UNCHANGED <<max_retries, outcomes, invocations, NotOfWrapper>>

\* lines 34-41: the except clause; after the sleep the loop goes on with the
\* next attempt
Except ==
    /\ wrapper_pc = "except"
    /\ last_exception' = outcomes[invocations]
    /\ IF attempt < max_retries
       THEN /\ sleeps' = sleeps + 1
            /\ attempt' = attempt + 1
            /\ wrapper_pc' = "try"
            /\ wrapper_out' = wrapper_out
       ELSE /\ wrapper_pc' = "raised"
            /\ wrapper_out' = outcomes[invocations]
            /\ UNCHANGED <<sleeps, attempt>>
    /\ UNCHANGED <<max_retries, outcomes, invocations, NotOfWrapper>>

NextRetry == Try \/ Except

SpecRetry == InitRetry /\ [][NextRetry]_vars

Failed(k) == outcomes[k].kind = "Exception"

\* C21: the function is invoked at most max_retries + 1 times, each time
\* after all earlier invocations raised; the wrapper returns what the first
\* invocation that does not raise returns, and is over then; when all
\* max_retries + 1 invocations raise it raises what the last one raised; it
\* has slept once after every failed invocation but the last possible one,
\* so at most max_retries times and not after the final failure
C21_Retry ==
    /\ invocations <= max_retries + 1
    /\ \A k \in 1..(invocations - 1) : Failed(k)
    /\ wrapper_pc = "try" => (sleeps = invocations /\ attempt = invocations)
    /\ wrapper_pc = "except" => (sleeps = invocations - 1 /\ Failed(invocations))
    /\ wrapper_pc = "returned" =>
          /\ wrapper_out = outcomes[invocations]
          /\ outcomes[invocations].kind = "return"
          /\ sleeps = invocations - 1
    /\ (wrapper_pc = "raised" /\ \A k \in 1..(max_retries + 1) : Failed(k)) =>
          /\ invocations = max_retries + 1
          /\ wrapper_out = outcomes[max_retries + 1]
          /\ sleeps = max_retries
    /\ sleeps <= max_retries
    /\ wrapper_pc \in {"returned", "raised"} => ~ENABLED NextRetry

\* all three invocations of retry(max_retries = 2) raised, the last one
\* another exception than the first
C21_Witness ==
    /\ wrapper_pc = "raised"
    /\ max_retries = 2
    /\ invocations = 3
    /\ \A k \in 1..3 : Failed(k)
    /\ outcomes[1] # outcomes[3]

(***************************************************************************)
(* Runs of main() on a MySQL column_seq table of an earlier run            *)
(***************************************************************************)
MaxLoadRows == 3

\* column_seq rows of one section: two process names, two seq values
LoadPool == {SeqRow(p, n) : p \in {s_P1, s_P2}, n \in {1, 2}}

\* a row of the MySQL table
LoadedRow(process_code, seq) == [cat1_code |-> s_C01, cat2_code |-> s_X1, process_code |-> process_code, seq |-> seq]

\* the MySQL column_seq table before the run: not there, empty, or holding
\* rows of an earlier load
EarlierTables ==
    {[exists |-> FALSE, rows |-> <<>>],
     [exists |-> TRUE, rows |-> <<>>],
     [exists |-> TRUE, rows |-> <<LoadedRow(s_K1, 2)>>],
     [exists |-> TRUE, rows |-> <<LoadedRow(s_K1, 1), LoadedRow(s_K3, 1)>>]}

InitLoad ==
    /\ quota = Numbered(<<[cat1 |-> s_A, cat2 |-> s_X, model |-> s_M1, process |-> s_P1, price |-> 10, effected_from |-> 20230101]>>)
    /\ quota2 = <<>>
    /\ df = DfUnset
    /\ df2 = DfUnset
    /\ MainEntered
    /\ name_in = <<>>
    /\ NoWrapperCall
    /\ NoBatch
    /\ process_cat1 = <<SomeRow(s_A, s_C01)>>
    /\ process_cat2 = <<SomeRow(s_X, s_X1)>>
    /\ motor_models = <<SomeRow(s_M1, s_100_2)>>
    /\ processes = <<SomeRow(s_P1, s_K1), SomeRow(s_P2, s_K2)>>
    /\ mysql_quotas = <<>>
    /\ sqlite_column_seq \in SeqsUpTo(LoadPool, MaxLoadRows)
    /\ mysql_column_seq \in EarlierTables
    /\ xlsx = NoFile
    /\ mysql_insert = "ok"
    /\ column_seq_insert \in {"ok", "error", "count_error"}
    /\ to_excel_fails_at = 0

SpecLoad == InitLoad /\ [][NextMain]_vars

\* C22 as stated: check_column_seq_table_exists() answers True when the
\* column_seq table exists and False when it does not, and step 5 calls
\* create_column_seq_table() only when the table does not exist
C22_TableCheck ==
    [][LoadColumnSeq =>
          /\ column_seq_check'.exists = mysql_column_seq.exists
          /\ column_seq_check'.create = ~mysql_column_seq.exists]_vars

\* step 5 has loaded the column sequences without a warning
SeqLoaded ==
    /\ pc \in {"export", "done"}
    /\ sqlite_column_seq # <<>>
    /\ warning = NoError

\* the input of load_column_seq_to_mysql in this run
SeqInput == map_column_seq_to_mysql(sqlite_column_seq, cat1_dict, cat2_dict, process_dict).rows

SeqKey(r) == <<r.cat1_code, r.cat2_code, r.process_code>>

\* the table holds one row for every combination of the input, with the seq
\* of its last occurrence, and nothing else
HoldsLastOfEach(table_rows, input) ==
    /\ {SeqKey(table_rows[i]) : i \in DOMAIN table_rows} = {SeqKey(input[i]) : i \in DOMAIN input}
    /\ \A i, j \in DOMAIN table_rows : i # j => SeqKey(table_rows[i]) # SeqKey(table_rows[j])
    /\ \A i \in DOMAIN table_rows :
          \E k \in DOMAIN input :
              /\ SeqKey(input[k]) = SeqKey(table_rows[i])
              /\ input[k].seq = table_rows[i].seq
              /\ \A l \in DOMAIN input : SeqKey(input[l]) = SeqKey(input[k]) => l <= k

\* C23 as stated: after a successful load the count main() got back is the
\* number of rows inserted, and the table holds exactly one row for every
\* (cat1_code, cat2_code, process_code) of the input, with the seq of its
\* last occurrence, and no row of an earlier load
C23_LoadedCount ==
    SeqLoaded =>
        /\ counts.column_seq = Len(mysql_column_seq.rows)
        /\ HoldsLastOfEach(mysql_column_seq.rows, SeqInput)

(***************************************************************************)
(* Quota records with a NULL in a grouping column                          *)
(***************************************************************************)
NullPool ==
    [cat1 : {s_A}, cat2 : {s_X, NULL}, model : {s_M1, NULL}, process : {s_P1},
     price : {10}, effected_from : {20230101, 20230601}]

\* tables with at least one record that belongs to a group
InitNull ==
    /\ \E rows \in SeqsUpTo(NullPool, MaxRows) :
          /\ \E i \in DOMAIN rows : ~HasNullKey(rows[i])
          /\ quota = Numbered(rows)
    /\ quota2 = <<>>
    /\ df = DfUnset
    /\ df2 = DfUnset
    /\ MainEntered
    /\ name_in = <<>>
    /\ NoWrapperCall
    /\ NoBatch
    /\ QuietStores

SpecNull == InitNull /\ [][NextCalc]_vars

\* C24 as stated: the frame get_quota_with_obsolete_date returns has one row
\* for every record of the table, a NULL in a grouping column or not, in the
\* order of the codes, with the record's key, price and effected_from and an
\* obsolete_date
C24_RecordsPreserved ==
    df.st = "ok" =>
        /\ Len(df.rows) = Len(quota)
        /\ \A i \in DOMAIN quota :
              /\ i \in DOMAIN df.rows
              /\ InRecord(df.rows[i]) = quota[i]
              /\ df.rows[i].obsolete_date \in Nat
        /\ \A i, j \in DOMAIN df.rows : i < j => df.rows[i].code < df.rows[j].code

(***************************************************************************)
(* Runs of main() on MySQL tables that hold rows of an earlier run         *)
(***************************************************************************)
\* a row of the quotas table loaded by an earlier run
EarlierQuota ==
    [cat1_code |-> s_C02, cat2_code |-> s_X1, model_code |-> s_63_1,
     process_code |-> s_K2, unit_price |-> 12, effective_date |-> 20220101,
     obsolete_date |-> SENTINEL, created_by |-> CREATED_BY, created_at |-> 0]

InitBatch ==
    /\ \E rows \in SeqsUpTo(MainPool, MaxMainRows) : quota = Numbered(rows)
    /\ quota2 = <<>>
    /\ df = DfUnset
    /\ df2 = DfUnset
    /\ MainEntered
    /\ name_in = <<>>
    /\ NoWrapperCall
    /\ NoBatch
    /\ process_cat1 \in MainCat1Tables
    /\ process_cat2 \in MainCat2Tables
    /\ motor_models \in MainModelTables
    /\ processes \in MainProcessTables
    /\ mysql_quotas \in {<<>>, <<EarlierQuota>>}
    /\ sqlite_column_seq \in {<<>>, <<SeqRow(s_P1, 1)>>}
    /\ mysql_column_seq \in {[exists |-> FALSE, rows |-> <<>>],
                             [exists |-> TRUE, rows |-> <<LoadedRow(s_K1, 2)>>]}
    /\ xlsx = NoFile
    /\ mysql_insert \in {"ok", "error"}
    /\ column_seq_insert = "ok"
    /\ to_excel_fails_at = 0

SpecBatch == InitBatch /\ [][NextMain]_vars

StoresChange ==
    \/ mysql_quotas' # mysql_quotas
    \/ mysql_column_seq' # mysql_column_seq
    \/ xlsx' # xlsx

\* the four dictionaries are loaded from tables without a repeated name and
\* every label of the batch has a code
BatchResolved ==
    /\ quotas_df.st = "ok"
    /\ \A dom \in Domains :
          /\ ~Ambiguous(TableOf(dom))
          /\ DictKeys(DictOf(dom)) = {TableOf(dom)[i].name : i \in DOMAIN TableOf(dom)}
          /\ Unresolved(dom) = {}

\* C25: a step of main() changes the quotas table, the column_seq table or
\* the workbook only once all four dictionaries are loaded and every label
\* of the batch is resolved; the step in which a dictionary-integrity or an
\* unresolved-label error is raised comes before that, changes none of the
\* three and ends main()
C25_LoadAfterResolution ==
    [][/\ StoresChange => (Stage(pc) >= 7 /\ BatchResolved)
       /\ (pc' = "raised" /\ IntegrityError(raised')) =>
             /\ Stage(pc) \in 2..6
             /\ ~StoresChange
       /\ pc # "raised"]_vars

\* main() has raised the unresolved-label error of the batch; the rows of
\* the earlier run are still in both tables and there is no workbook
C25_Witness ==
    /\ pc = "raised"
    /\ raised.msg = "Mapping errors"
    /\ mysql_quotas = <<EarlierQuota>>
    /\ mysql_column_seq.rows = <<LoadedRow(s_K1, 2)>>
    /\ xlsx = NoFile

\* C26 as stated: when step 5 ends with a warning (the load of the column
\* sequences failed somewhere), the MySQL column_seq table holds the rows it
\* held before the step
C26_AllOrNothing ==
    [][(LoadColumnSeq /\ warning' # NoError) =>
          mysql_column_seq'.rows = mysql_column_seq.rows]_vars

(***************************************************************************)
(* load_cat2_code: code generation and the handling of repeated codes      *)
(***************************************************************************)
MaxBatch == 3

\* the characters of the two punctuation literals, and '(' and ')'
PUNCTUATION ==
    {34, 40, 41, 46, 58, 166, 183, 1026, 1027, 1033, 1034, 1042, 1074,
     1075, 1087, 1106, 1112, 1113, 1119, 8216, 8218, 8221, 8240, 8249,
     8250, 8364}

\* pypinyin's first letter (upper case) of the two characters of the example
\* of the docstring: U+540E -> 'H', U+88C5 -> 'Z'
PinyinFirstLetter == (21518 :> 72) @@ (35013 :> 90)

IsChinese(c) == c >= 19968 /\ c <= 40959

\* isalpha() and isdigit() on the characters the names are made of
IsAlpha(c) == c \in (65..90) \cup (97..122)

IsDigit(c) == c \in 48..57

\* what process_encode appends for one character
EncodeChar(c) ==
    IF c \in PUNCTUATION \/ c \in WHITESPACE THEN <<>>
    ELSE IF IsChinese(c) THEN <<PinyinFirstLetter[c]>>
    ELSE IF IsAlpha(c) \/ IsDigit(c) THEN <<c>>
    ELSE <<>>

\* process_encode(input_string)
process_encode(input_string) == Concat([i \in DOMAIN input_string |-> EncodeChar(input_string[i])])

\* step 5: the rows of a repeated code after its first keep the code and get
\* chr(ord('a') + i), i = 0 for the second row of the code, 1 for the third
handle_duplicates(codes) ==
    [idx \in DOMAIN codes |->
        LET before == Cardinality({j \in 1..(idx - 1) : codes[j] = codes[idx]})
        IN  IF before = 0 THEN codes[idx] ELSE codes[idx] \o <<97 + before - 1>>]

\* names of the sheet: texts of 'X', 'a' and '.', and texts with U+540E or 'H'
BatchNamePool ==
    (SeqsUpTo({88, 97, 46}, 2) \ {<<>>})
    \cup {<<21518>>, <<72>>, <<72, 97>>, <<21518, 46>>}

\* a sheet of pairwise different names
InitEncode ==
    /\ batch_names \in SeqsUpTo(BatchNamePool, MaxBatch)
    /\ \A i, j \in DOMAIN batch_names : i # j => batch_names[i] # batch_names[j]
    /\ batch_codes = <<>>
    /\ batch_pc = "encode"
    /\ quota = <<>>
    /\ quota2 = <<>>
    /\ df = DfUnset
    /\ df2 = DfUnset
    /\ MainEntered
    /\ name_in = <<>>
    /\ NoWrapperCall
    /\ QuietStores

NotOfBatch == <<calcVars, pc, tableVars, dictVars, clock, quotas_df, raised, lateVars, sheetVars, retryVars>>

\* step 3: df['cat2_code'] = df['name'].apply(process_encode)
ApplyProcessEncode ==
    /\ batch_pc = "encode"
    /\ batch_codes' = [i \in DOMAIN batch_names |-> process_encode(batch_names[i])]
    /\ batch_pc' = "duplicates"
    /\ UNCHANGED <<batch_names, NotOfBatch>>

\* step 5
HandleDuplicates ==
    /\ batch_pc = "duplicates"
    /\ batch_codes' = handle_duplicates(batch_codes)
    /\ batch_pc' = "done"
    /\ UNCHANGED <<batch_names, NotOfBatch>>

NextEncode == ApplyProcessEncode \/ HandleDuplicates

SpecEncode == InitEncode /\ [][NextEncode]_vars

Generated(i) == process_encode(batch_names[i])

\* the row is not the first with the code generated for it
Later(i) == \E j \in 1..(i - 1) : Generated(j) = Generated(i)

\* within a group the first row keeps the generated code, and every later
\* row has the generated code and one more character, another one than
\* every other row of the group
SuffixedInGroup ==
    \A i \in DOMAIN batch_codes :
        IF ~Later(i) THEN batch_codes[i] = Generated(i)
        ELSE /\ Len(batch_codes[i]) = Len(Generated(i)) + 1
             /\ SubSeq(batch_codes[i], 1, Len(Generated(i))) = Generated(i)
             /\ \A j \in DOMAIN batch_codes :
                   (j # i /\ Generated(j) = Generated(i)) => batch_codes[j] # batch_codes[i]

\* C27 as stated: after the duplicate handling the codes of the batch are
\* pairwise distinct: in a group of names with one generated code the first
\* keeps it and the later ones get distinct suffixes, and no suffixed code
\* is the code of another row
C27_DistinctCodes ==
    batch_pc = "done" =>
        /\ SuffixedInGroup
        /\ \A i, j \in DOMAIN batch_codes : i # j => batch_codes[i] # batch_codes[j]

====
